---- MODULE Spec2Model ----
(***************************************************************************)
(* node-http-interceptor: the interception engine of                       *)
(* src/src/http-interceptor.ts (class HttpInterceptor, lines 351-707, and  *)
(* the helpers below it).                                                  *)
(*                                                                         *)
(* The transports' entry points are stacks of shimmer wrapper layers, a    *)
(* request handle carries one closure ("layer") per request-wrapper it was *)
(* created through, and every wrapped operation is one action that runs    *)
(* the layers outermost first and then the original operation.             *)
(***************************************************************************)
EXTENDS Integers, Sequences, FiniteSets, TLC

\* ------------------------------------------------------------------ bounds
MaxCalls == 2
MaxObservers == 2
MaxWrites == 1
MaxEnds == 2
MaxData == 2
MaxClock == 3
MaxSockets == 1
MaxEnables == 2

\* --------------------------------------------------------------- constants
Interceptors == {"a"}
Transports == {"http", "https"}
Events == {"request.initiated", "request.sent", "response.received", "response.error", "socket.error"}
\* what an observer does when it is called
Behaviours == {"ok", "throw", "throwNullish"}
\* observers that return after writing to what they were handed: a
\* request.initiated observer that calls request.setHeader('X-Trace', 'on') or
\* request.setHeader('x-flag', ''), and an observer of a snapshot that
\* assigns req.headers.authorization = '***'
Editors == {"setHeader", "setEmptyHeader", "redact"}
\* an options callback (peekRequestBody, peekResponseBody): a predicate that
\* returns true, or one that returns false; no callback given takes the same
\* path as one that returns true
Policies == {"accept", "decline"}
\* the _stub field: not installed, or a function returning a response / nothing
Stubs == {"none", "response", "nothing"}
TimingFields == {"socket.lookup", "socket.connect", "socket.tls", "socket.ready", "socket.error", "socket.close", "request.initiated", "request.finish", "request.close", "request.timeout", "request.write", "request.end", "response.read", "response.end", "response.error", "response.aborted"}

VARIABLES
    options,    \* per interceptor: the constructor's options
    enabled,    \* per interceptor: this.enabled
    listeners,  \* per interceptor: the emitter's listeners, in subscription order
    stubFn,     \* per interceptor: this._stub
    entry,      \* per transport: the wrapper layers on .request and .get, outermost first
    calls,      \* the request handles created so far
    sockets,    \* the connection handles: the emit wrappers on each, outermost first
    clock,      \* what now() returns
    uuids,      \* how many identifiers uuid() has handed out
    hist        \* bookkeeping: registrations, enable() calls, listener removals

vars == <<options, enabled, listeners, stubFn, entry, calls, sockets, clock, uuids, hist>>

\* ----------------------------------------------------------------- helpers
RECURSIVE Flatten(_)
Flatten(ss) ==
    IF ss = <<>> THEN <<>> ELSE Head(ss) \o Flatten(Tail(ss))

\* now(): new Date().getTime()
now == clock

\* body: false, the "not captured" marker, against a captured Buffer
Unread == [captured |-> FALSE, bytes |-> <<>>]
Captured(bytes) == [captured |-> TRUE, bytes |-> bytes]

NoTiming == [f \in TimingFields |-> 0]

\* ---------------------------------------------------------- chunk arguments
\* (chunk, encoding) as write and end receive them
ChunkArgs ==
    { [type |-> "undefined", data |-> <<>>, enc |-> "none"],
      [type |-> "function", data |-> <<>>, enc |-> "none"],
      [type |-> "buffer", data |-> <<7>>, enc |-> "none"],
      [type |-> "string", data |-> <<>>, enc |-> "none"],
      [type |-> "string", data |-> <<233>>, enc |-> "none"],
      [type |-> "string", data |-> <<233>>, enc |-> "latin1"] }

\* the data of a response's 'data' event: a Buffer, or a string once the
\* consumer chose an encoding (response.readableEncoding)
DataArgs ==
    { [type |-> "buffer", data |-> <<7>>, enc |-> "none"],
      [type |-> "string", data |-> <<233>>, enc |-> "latin1"] }

BufferArg == [type |-> "buffer", data |-> <<7>>, enc |-> "none"]

NoArg == [type |-> "undefined", data |-> <<>>, enc |-> "none"]

\* Buffer.from(string, 'utf-8') for code points below 2048
Utf8(cp) ==
    IF cp < 128 THEN <<cp>> ELSE <<192 + (cp \div 64), 128 + (cp % 64)>>

Latin1(cp) == <<cp % 256>>

\* Buffer.from(chunk, encoding || 'utf-8')
BufferFrom(data, enc) ==
    Flatten([i \in 1..Len(data) |-> IF enc = "latin1" THEN Latin1(data[i]) ELSE Utf8(data[i])])

\* `chunk && typeof chunk !== 'function'`: '' and undefined are falsy
IsData(arg) ==
    /\ arg.type \in {"buffer", "string"}
    /\ ~(arg.type = "string" /\ arg.data = <<>>)

\* a push that converts every string chunk as UTF-8, whatever encoding the
\* call was given
pushChunkUtf8(chunks, arg) ==
    IF IsData(arg)
    THEN Append(chunks, IF arg.type = "string" THEN BufferFrom(arg.data, "none") ELSE arg.data)
    ELSE chunks

\* the push of one chunk onto the accumulator
pushChunk(chunks, arg) ==
    IF IsData(arg)
    THEN Append(chunks, IF arg.type = "string" THEN BufferFrom(arg.data, arg.enc) ELSE arg.data)
    ELSE chunks

\* Buffer.concat(chunks)
BufferConcat(chunks) == Flatten(chunks)

\* ------------------------------------------------------------------ headers
\* A header value is a string, a number or a list of strings; a header
\* object maps names, as they are spelt, to values.
Str(x) == [type |-> "string", items |-> <<x>>, num |-> 0]

Num(n) == [type |-> "number", items |-> <<>>, num |-> n]

List(xs) == [type |-> "list", items |-> xs, num |-> 0]

\* `if (value)`: '' and 0 are falsy, every array is truthy
Truthy(v) ==
    CASE v.type = "list" -> TRUE
      [] v.type = "number" -> v.num # 0
      [] OTHER -> v.items[1] # ""

\* [...new Set(value)]: the distinct values in first-occurrence order
RECURSIVE Dedupe(_)
Dedupe(xs) ==
    IF xs = <<>> THEN <<>>
    ELSE LET front == Dedupe(SubSeq(xs, 1, Len(xs) - 1))
             last == xs[Len(xs)]
         IN IF \E n \in 1..Len(front) : front[n] = last THEN front ELSE Append(front, last)

\* a number is written in decimal, a list is de-duplicated and a list of one
\* distinct value becomes that value
normaliseValue(v) ==
    CASE v.type = "number" -> Str(ToString(v.num))
      [] v.type = "list" -> IF Len(Dedupe(v.items)) = 1 THEN Str(Dedupe(v.items)[1]) ELSE List(Dedupe(v.items))
      [] OTHER -> v

\* normaliseHeaders(headers): falsy values are left out, lists are
\* de-duplicated and a list of one value becomes that value
normaliseHeaders(headers) ==
    [h \in {k \in DOMAIN headers : Truthy(headers[k])} |-> normaliseValue(headers[h])]

\* the header objects a stub returns (headers.given: the response has a
\* headers property at all)
EmptyHeaders == [h \in {} |-> Str("")]

\* name.toLowerCase(), for the names that are spelt with capitals here
Lower(name) ==
    CASE name = "X-Trace" -> "x-trace"
      [] name = "X-Stub" -> "x-stub"
      [] name = "Content-Length" -> "content-length"
      [] OTHER -> name

\* The header store of a ClientRequest: request.setHeader(name, value) files
\* the value under the lower-cased name, and request.getHeaders() returns the
\* stored values, as they were given, under the lower-cased names.
setHeader(store, name, value) == (Lower(name) :> value) @@ store

getHeaders(store) == store

\* the store of a handle created with options.headers
storeOf(headers) ==
    [k \in {Lower(n) : n \in DOMAIN headers} |-> headers[CHOOSE n \in DOMAIN headers : Lower(n) = k]]

\* ------------------------------------------------------- request arguments
\* a property that is not there
Undefined == "<undefined>"

\* An options record: protocol, host, hostname, path and method are strings
\* or absent, port is a number (0: absent), agent is absent, an http.Agent or
\* an https.Agent.
DefaultOptions ==
    [protocol |-> Undefined, host |-> Undefined, hostname |-> "n", port |-> 0, path |-> "/p",
     agent |-> "none", method |-> "GET", headers |-> EmptyHeaders]

\* the options records whose address varies
AddressOptions ==
    [protocol : {Undefined, "http:", "https:"}, host : {Undefined, "h", "h:8080"}, hostname : {Undefined, "n"},
     port : {0, 80, 443, 8080}, path : {"/p"}, agent : {"none", "http.Agent", "https.Agent"},
     method : {"GET"}, headers : {EmptyHeaders}]

\* the header objects a request is created with
RequestHeaderObjects ==
    { EmptyHeaders,
      "accept" :> Str("*/*"),
      "Content-Length" :> Num(0),
      "Content-Length" :> Num(12),
      "x-flag" :> Str(""),
      "cookie" :> List(<<"a", "a">>),
      "cookie" :> List(<<"a", "b", "a">>),
      "cookie" :> List(<<"">>),
      "cookie" :> List(<<>>) }

\* the options records whose method and headers vary
MethodOptions ==
    [protocol : {Undefined}, host : {Undefined}, hostname : {"n"}, port : {0}, path : {"/p"}, agent : {"none"},
     method : {Undefined, "GET", "POST"}, headers : RequestHeaderObjects]

\* The arguments of request(...) and get(...): an options record, or a URL
\* string or URL object followed by nothing, by a callback, or by an options
\* record (and then a callback).
RequestArgs ==
    [first : {"options"}, href : {Undefined}, second : {"none"}, options : AddressOptions \cup MethodOptions]
        \cup [first : {"string", "URL"}, href : {"http://n/p", "http://n:80/p"}, second : {"none", "callback"}, options : {DefaultOptions}]
        \cup [first : {"string", "URL"}, href : {"http://n/p"}, second : {"options"}, options : MethodOptions]

DefaultArgs == [first |-> "options", href |-> Undefined, second |-> "none", options |-> DefaultOptions]

\* url.toString() of a URL object: the serialisation leaves out the default
\* port of the scheme
URLtoString(href) == IF href = "http://n:80/p" THEN "http://n/p" ELSE href

\* host.includes(':')
IncludesColon(host) == host \in {"h:8080"}

\* resolveHttpRequestUrl(args), as the pieces of the string it builds
resolveHttpRequestUrl(args) ==
    LET o == args.options
        isSecure == o.agent = "https.Agent"
        defaultPort == IF isSecure THEN 443 ELSE 80
        host == IF o.host # Undefined THEN o.host ELSE o.hostname
        port == IF IncludesColon(host) THEN <<>>
                ELSE IF o.port # 0 /\ o.port # defaultPort THEN <<":", ToString(o.port)>>
                ELSE <<>>
        protocol == IF o.protocol # Undefined THEN o.protocol ELSE IF isSecure THEN "https:" ELSE "http:"
    IN CASE args.first = "string" -> <<args.href>>
         [] args.first = "URL" -> <<URLtoString(args.href)>>
         [] o.hostname # Undefined \/ o.host # Undefined -> <<protocol, "//", host>> \o port \o <<o.path>>
         [] OTHER -> <<"<unknown>">>

\* the options of a call that names its target in the first argument: what
\* args[1] is
secondArg(args) ==
    CASE args.second = "options" -> "record" [] args.second = "callback" -> "function" [] OTHER -> "undefined"

\* resolveHttpRequestMethod(args): for a URL string or object it is
\* args[1].method, whatever args[1] is; reading .method of undefined throws a
\* TypeError
resolveHttpRequestMethod(args) ==
    CASE args.first \in {"string", "URL"} /\ secondArg(args) = "record" -> [thrown |-> FALSE, value |-> args.options.method]
      [] args.first \in {"string", "URL"} /\ secondArg(args) = "function" -> [thrown |-> FALSE, value |-> Undefined]
      [] args.first \in {"string", "URL"} /\ secondArg(args) = "undefined" -> [thrown |-> TRUE, value |-> Undefined]
      [] args.options.method # Undefined -> [thrown |-> FALSE, value |-> args.options.method]
      [] OTHER -> [thrown |-> FALSE, value |-> "GET"]

\* the header store of the handle that the transport creates from the arguments
handleOf(args) ==
    IF args.first = "options" \/ args.second = "options" THEN storeOf(args.options.headers) ELSE EmptyHeaders

ReadmeHeaders == ("content-type" :> Str("text/plain")) @@ ("x-custom-header" :> Str("blabla"))

StubHeaderObjects ==
    { EmptyHeaders,
      ReadmeHeaders,
      "x-stub" :> Str("false"),
      "X-Stub" :> Str("1"),
      "server" :> Str(""),
      "set-cookie" :> List(<<"a", "a">>),
      "set-cookie" :> List(<<"a", "b", "a">>) }

\* what a stub function returns: statusCode 0 and statusMessage "" stand
\* for a response that omits them
StubResponses ==
    [statusCode : {0, 404}, statusMessage : {"", "Not Found"},
     headers : [given : {TRUE}, fields : StubHeaderObjects] \cup {[given |-> FALSE, fields |-> EmptyHeaders]}]

NoStubResponse == [statusCode |-> 0, statusMessage |-> "", headers |-> [given |-> FALSE, fields |-> EmptyHeaders]]

\* this._stub: not installed (ret "none"), a function that returns a
\* response, or one that returns nothing
NoStub == [ret |-> "none", response |-> NoStubResponse]

StubFns ==
    [ret : {"response"}, response : StubResponses] \cup {[ret |-> "nothing", response |-> NoStubResponse]}

\* a stub function that throws
ThrowingStub == [ret |-> "throws", response |-> NoStubResponse]

\* the stub of the README
ReadmeStub ==
    [ret |-> "response",
     response |-> [statusCode |-> 200, statusMessage |-> "OK", headers |-> [given |-> TRUE, fields |-> ReadmeHeaders]]]

\* the fixed header block of a fabricated response
DiagnosticHeaders ==
    ("server" :> Str("http-interceptor/stub")) @@ ("x-stub" :> Str("true"))
        @@ ("content-type" :> Str("application/octet-stream")) @@ ("date" :> Str("<now>"))

\* a fabrication whose diagnostic block is laid over the stub's headers
fabricateDiagnosticFirst(sr) ==
    [statusCode |-> IF sr.statusCode = 0 THEN 200 ELSE sr.statusCode,
     statusMessage |-> IF sr.statusMessage = "" THEN "OK" ELSE sr.statusMessage,
     headers |-> DiagnosticHeaders @@ normaliseHeaders(sr.headers.fields)]

\* the status line and headers of the IncomingMessage built from a stub
\* response: statusCode || 200, statusMessage || 'OK', and the diagnostic
\* block with the stub's normalised headers spread over it
fabricate(sr) ==
    [statusCode |-> IF sr.statusCode = 0 THEN 200 ELSE sr.statusCode,
     statusMessage |-> IF sr.statusMessage = "" THEN "OK" ELSE sr.statusMessage,
     headers |-> normaliseHeaders(sr.headers.fields) @@ DiagnosticHeaders]

\* the status line and headers of a response of the transport
RealHead == [statusCode |-> 200, statusMessage |-> "OK", headers |-> ("content-type" :> Str("text/html"))]

\* ---------------------------------------------------------------- observers
\* the listeners of one event kind, in subscription order
ListenersOf(i, kind) == SelectSeq(listeners[i], LAMBDA o : o.kind = kind)

Throws(beh) == beh \in {"throw", "throwNullish"}

FirstThrower(ls) ==
    IF \E n \in 1..Len(ls) : Throws(ls[n].beh)
    THEN CHOOSE n \in 1..Len(ls) : Throws(ls[n].beh) /\ \A m \in 1..(n - 1) : ~Throws(ls[m].beh)
    ELSE 0

\* EventEmitter.emit: the listeners run in order and a throwing listener ends
\* the dispatch, its exception leaving emit
emit(i, kind) ==
    LET ls == ListenersOf(i, kind)
        n == FirstThrower(ls)
        ran == IF n = 0 THEN ls ELSE SubSeq(ls, 1, n)
    IN [obs |-> [m \in 1..Len(ran) |-> ran[m].id],
        did |-> [m \in 1..Len(ran) |-> ran[m].beh],
        thrown |-> IF n = 0 THEN "none" ELSE IF ls[n].beh = "throw" THEN "error" ELSE "nullish"]

\* handleWrapperError: reads error.message, so a thrown null or undefined
\* makes the handler itself throw a TypeError
handleWrapperError(thrown) ==
    IF thrown = "nullish" THEN "error" ELSE "none"

\* what emitter.emit(kind, ...) hands to the listeners, in argument order
Payload(kind) ==
    CASE kind = "request.initiated" -> <<"request", "context">>
      [] kind = "request.sent" -> <<"req", "context">>
      [] kind = "response.received" -> <<"req", "res", "context">>
      [] kind = "response.error" -> <<"req", "error", "context">>
      [] kind = "socket.error" -> <<"req", "error", "context">>

\* one published event, as the layer's closure saw it
\* (on: the response object it is about, 0 for none; subs: how many observers
\* of the kind were subscribed; floor: the registrations that a disable() had
\* removed by then; args: what the listeners were handed; req: the snapshot
\* as it was when the first listener was called; did: what the listeners
\* that ran did)
Event(kind, L, e, on, body) ==
    [kind |-> kind, rid |-> L.rid, obs |-> e.obs, did |-> e.did, subs |-> Len(ListenersOf(L.owner, kind)),
     floor |-> hist.floor[L.owner], threw |-> e.thrown, on |-> on, body |-> body, args |-> Payload(kind),
     req |-> [url |-> L.req.url, method |-> L.req.method, headers |-> L.req.headers, body |-> L.req.body]]

\* ------------------------------------------------------ what a layer closes over
\* The closure state of one request-wrapper layer on one handle: the context
\* (requestId, timing), the snapshot req, notPeek and chunks of
\* peekRequestBody, how often it called the stub function (asked), the stub
\* response it scheduled (stub: "none", "pending", "delivered", or "threw"
\* once the scheduled callback failed), and the events it published.
\* the snapshot req before the wrapper has built it
NoSnapshot == [url |-> <<>>, method |-> Undefined, headers |-> EmptyHeaders, body |-> Unread, frozen |-> FALSE]

\* a context that every call of the interceptor would share
NewLayerSharedContext(i, rid) ==
    [owner |-> i, rid |-> 0, timing |-> [NoTiming EXCEPT !["request.initiated"] = now],
     req |-> NoSnapshot, notPeek |-> FALSE, chunks |-> <<>>,
     wrapped |-> FALSE, asked |-> 0, stub |-> "none", stubResponse |-> NoStubResponse, log |-> <<>>]

NewLayer(i, rid) ==
    [owner |-> i, rid |-> rid, timing |-> [NoTiming EXCEPT !["request.initiated"] = now],
     req |-> NoSnapshot, notPeek |-> FALSE, chunks |-> <<>>,
     wrapped |-> FALSE, asked |-> 0, stub |-> "none", stubResponse |-> NoStubResponse, log |-> <<>>]

\* req.headers.authorization = '***' in a listener: Object.freeze(req) does
\* not freeze the object req.headers refers to
redact(headers) == ("authorization" :> Str("***")) @@ headers

\* the snapshot after the listeners that ran have done what they do
edited(req, did) ==
    IF \E m \in 1..Len(did) : did[m] = "redact" THEN [req EXCEPT !.headers = redact(@)] ELSE req

Publish(L, kind, e, on, body) ==
    [L EXCEPT !.log = Append(@, Event(kind, L, e, on, body)),
              !.req = IF kind = "request.initiated" THEN @ ELSE edited(@, e.did)]

\* A wrapped operation runs its wrappers outermost first; res[n] is what
\* wrapper n does (prop: the exception leaving it).  A wrapper that lets an
\* exception out ends the chain: the wrappers inside it and the original
\* operation do not run.
StopAt(res) ==
    IF \E n \in 1..Len(res) : res[n].prop # "none"
    THEN CHOOSE n \in 1..Len(res) : res[n].prop # "none" /\ \A m \in 1..(n - 1) : res[m].prop = "none"
    ELSE 0

Ran(res, n) == StopAt(res) = 0 \/ n <= StopAt(res)

Invoked(res) == IF StopAt(res) = 0 THEN 1 ELSE 0

Propagated(res) == IF StopAt(res) = 0 THEN "none" ELSE res[StopAt(res)].prop

\* What became of the calls to an object's wrapped operations: how many there
\* were, how many times the original operation was invoked, and how many let
\* an exception out to the caller.
NoOps == [calls |-> 0, invoked |-> 0, threw |-> 0]

Count(o, res) ==
    [calls |-> o.calls + 1, invoked |-> o.invoked + Invoked(res), threw |-> o.threw + IF Propagated(res) = "none" THEN 0 ELSE 1]

\* a layer whose wrappers were never installed on the handle takes no part
Skip(L) == [layer |-> L, prop |-> "none"]

\* ------------------------------------------------------------ installation
\* shimmer wrap(transport, name, ...): one more layer, outermost
shimmerWrap(stack, i) == <<i>> \o stack

\* shimmer unwrap(transport, name): the outermost layer restores what it
\* wrapped; a function that is not a wrapper is left alone
shimmerUnwrap(stack) == IF stack = <<>> THEN stack ELSE Tail(stack)

\* HttpInterceptor.wrap(transport): 'get' and 'request' are both wrapped
wrap(e, i) == [request |-> shimmerWrap(e.request, i), get |-> shimmerWrap(e.get, i)]

\* an enable() that wraps without looking at the enabled flag
enableNoGuard(i) ==
    /\ entry' = [t \in Transports |-> wrap(entry[t], i)]
    /\ enabled' = [enabled EXCEPT ![i] = TRUE]
    /\ UNCHANGED listeners

\* HttpInterceptor.enable()
enable(i) ==
    IF ~enabled[i]
    THEN /\ entry' = [t \in Transports |-> wrap(entry[t], i)]
         /\ enabled' = [enabled EXCEPT ![i] = TRUE]
         /\ UNCHANGED listeners
    ELSE UNCHANGED <<entry, enabled, listeners>>

\* a disable() that leaves the observers subscribed
disableKeepListeners(i) ==
    IF enabled[i]
    THEN /\ entry' = [t \in Transports |-> [entry[t] EXCEPT !.request = shimmerUnwrap(@)]]
         /\ enabled' = [enabled EXCEPT ![i] = FALSE]
         /\ UNCHANGED listeners
    ELSE UNCHANGED <<entry, enabled, listeners>>

\* HttpInterceptor.disable(): 'request' is unwrapped on both transports, 'get'
\* is not; every listener is removed
disable(i) ==
    IF enabled[i]
    THEN /\ entry' = [t \in Transports |-> [entry[t] EXCEPT !.request = shimmerUnwrap(@)]]
         /\ listeners' = [listeners EXCEPT ![i] = <<>>]
         /\ enabled' = [enabled EXCEPT ![i] = FALSE]
    ELSE UNCHANGED <<entry, enabled, listeners>>

stub(i, s) ==
    IF s.ret # "none" THEN stubFn' = [stubFn EXCEPT ![i] = s] ELSE UNCHANGED stubFn

unstub(i) ==
    IF stubFn[i].ret # "none" THEN stubFn' = [stubFn EXCEPT ![i] = NoStub] ELSE UNCHANGED stubFn

on(i, kind, beh) ==
    listeners' = [listeners EXCEPT ![i] = Append(@, [id |-> hist.regs + 1, kind |-> kind, beh |-> beh])]

\* ------------------------------------------------------- request creation
\* a request policy that is never consulted
notPeekRequestNever(i) == FALSE

\* a response policy that is never consulted
notPeekResponseNever(i) == FALSE

\* options.peekRequestBody && !options.peekRequestBody(req)
notPeekRequest(i) == options[i].peekRequestBody = "decline"

\* options.peekResponseBody && !options.peekResponseBody(res)
notPeekResponse(i) == options[i].peekResponseBody = "decline"

\* the handle's headers after the request.initiated listeners that ran
RECURSIVE initiated(_, _)
initiated(store, did) ==
    IF did = <<>> THEN store
    ELSE LET before == initiated(store, SubSeq(did, 1, Len(did) - 1))
             beh == did[Len(did)]
         IN CASE beh = "setHeader" -> setHeader(before, "X-Trace", Str("on"))
              [] beh = "setEmptyHeader" -> setHeader(before, "x-flag", Str(""))
              [] OTHER -> before

\* the handle's headers after the wrapper layers of stack (outermost first)
\* have published request.initiated, the innermost first
RECURSIVE handleAfter(_, _)
handleAfter(stack, store) ==
    IF stack = <<>> THEN store
    ELSE initiated(handleAfter(Tail(stack), store), emit(Head(stack), "request.initiated").did)

\* The request wrapper of one layer, after original.apply returned the handle:
\* the context, request.initiated, the snapshot, wrapRequest with
\* peekRequestBody, the stub.  resolveHttpRequestMethod(args) and
\* this._stub(req) are called outside any try block: what they throw leaves
\* the wrapper, the first before the handle is wrapped and the second after.
\* (store: the handle's headers when the wrapper starts)
requestWrapper(i, rid, args, store) ==
    LET e == emit(i, "request.initiated")
        L1 == Publish(NewLayer(i, rid), "request.initiated", e, 0, Unread)
        prop == handleWrapperError(e.thrown)
        method == resolveHttpRequestMethod(args)
        req == [url |-> resolveHttpRequestUrl(args), method |-> method.value,
                headers |-> normaliseHeaders(getHeaders(initiated(store, e.did))), body |-> Unread, frozen |-> FALSE]
    IN IF prop # "none"
       THEN [layer |-> L1, prop |-> prop]
       ELSE IF method.thrown
       THEN [layer |-> L1, prop |-> "error"]
       ELSE IF stubFn[i].ret = "throws"
       THEN [layer |-> [L1 EXCEPT !.req = req, !.wrapped = TRUE, !.notPeek = notPeekRequest(i), !.asked = 1], prop |-> "error"]
       ELSE [layer |-> [L1 EXCEPT !.req = req,
                                  !.wrapped = TRUE,
                                  !.notPeek = notPeekRequest(i),
                                  !.asked = IF stubFn[i].ret # "none" THEN 1 ELSE 0,
                                  !.stub = IF stubFn[i].ret = "response" THEN "pending" ELSE "none",
                                  !.stubResponse = stubFn[i].response],
             prop |-> "none"]

\* transport.request(...args) through the wrapper stack: the innermost layer
\* calls the real entry point and runs first, each outer layer runs after the
\* layer inside it returned, and an exception leaving a layer skips the outer
\* ones and reaches the caller.
newCall(t, args) ==
    LET stack == entry[t].request
        k == Len(stack)
        res == [j \in 1..k |-> requestWrapper(stack[j], uuids + (k - j) + 1, args, handleAfter(SubSeq(stack, j + 1, k), handleOf(args)))]
        bad == {j \in 1..k : res[j].prop # "none"}
        f == IF bad = {} THEN 1 ELSE CHOOSE j \in bad : \A m \in bad : m <= j
        ran == [n \in 1..(IF k = 0 THEN 0 ELSE k - f + 1) |-> res[f + n - 1].layer]
    IN [call |-> [layers |-> ran, returned |-> bad = {}, passed |-> <<>>, writes |-> 0, ends |-> 0,
                  emitted |-> {}, socket |-> 0, resps |-> <<>>, orig |-> NoOps,
                  args |-> args, headers |-> handleAfter(SubSeq(stack, f, k), handleOf(args))],
        ids |-> Len(ran),
        prop |-> IF bad = {} THEN "none" ELSE res[f].prop]

\* ------------------------------------------------------------ write and end
\* a write wrapper that stamps request.write on every call
writeWrapperRestamp(L, arg) ==
    LET L1 == [L EXCEPT !.timing["request.write"] = now]
        L2 == IF ~L.notPeek THEN [L1 EXCEPT !.chunks = pushChunk(@, arg)] ELSE L1
    IN [layer |-> L2, prop |-> "none"]

\* the write wrapper of one layer (peekRequestBody)
writeWrapper(L, arg) ==
    LET L1 == IF L.timing["request.write"] = 0 THEN [L EXCEPT !.timing["request.write"] = now] ELSE L
        L2 == IF ~L.notPeek THEN [L1 EXCEPT !.chunks = pushChunk(@, arg)] ELSE L1
    IN [layer |-> L2, prop |-> "none"]

\* an end wrapper that leaves request.write alone
endWrapperNoBackFill(L, arg) ==
    LET L2 == [L EXCEPT !.timing["request.end"] = now]
        L3 == IF ~L.notPeek THEN [L2 EXCEPT !.chunks = pushChunk(@, arg)] ELSE L2
        assignThrows == ~L.notPeek /\ L.req.frozen
        L4 == IF ~L.notPeek /\ ~assignThrows THEN [L3 EXCEPT !.req.body = Captured(BufferConcat(L3.chunks))] ELSE L3
        e == emit(L.owner, "request.sent")
        L5 == Publish([L4 EXCEPT !.req.frozen = TRUE], "request.sent", e, 0, L4.req.body)
    IN IF assignThrows
       THEN [layer |-> L4, prop |-> handleWrapperError("error")]
       ELSE [layer |-> L5, prop |-> handleWrapperError(e.thrown)]

\* the end wrapper of one layer (peekRequestBody).  req.body = ... on a
\* snapshot that Object.freeze has frozen throws a TypeError (module code is
\* strict), which the catch hands to handleWrapperError.
endWrapper(L, arg) ==
    LET L1 == IF L.timing["request.write"] = 0 THEN [L EXCEPT !.timing["request.write"] = now] ELSE L
        L2 == [L1 EXCEPT !.timing["request.end"] = now]
        L3 == IF ~L.notPeek THEN [L2 EXCEPT !.chunks = pushChunk(@, arg)] ELSE L2
        assignThrows == ~L.notPeek /\ L.req.frozen
        L4 == IF ~L.notPeek /\ ~assignThrows THEN [L3 EXCEPT !.req.body = Captured(BufferConcat(L3.chunks))] ELSE L3
        e == emit(L.owner, "request.sent")
        L5 == Publish([L4 EXCEPT !.req.frozen = TRUE], "request.sent", e, 0, L4.req.body)
    IN IF assignThrows
       THEN [layer |-> L4, prop |-> handleWrapperError("error")]
       ELSE [layer |-> L5, prop |-> handleWrapperError(e.thrown)]

\* request.write(chunk, encoding) on the handle
writeCall(c, arg) ==
    LET res == [j \in 1..Len(c.layers) |-> IF c.layers[j].wrapped THEN writeWrapper(c.layers[j], arg) ELSE Skip(c.layers[j])]
    IN [call |-> [c EXCEPT !.layers = [j \in 1..Len(c.layers) |-> IF Ran(res, j) THEN res[j].layer ELSE c.layers[j]],
                           !.passed = Append(@, arg), !.writes = @ + 1, !.orig = Count(@, res)],
        prop |-> Propagated(res)]

\* an end() whose wrappers stand aside once their interceptor is disabled
endCallWhileEnabled(c, arg) ==
    LET res == [j \in 1..Len(c.layers) |-> IF c.layers[j].wrapped /\ enabled[c.layers[j].owner] THEN endWrapper(c.layers[j], arg) ELSE Skip(c.layers[j])]
    IN [call |-> [c EXCEPT !.layers = [j \in 1..Len(c.layers) |-> IF Ran(res, j) THEN res[j].layer ELSE c.layers[j]],
                           !.passed = Append(@, arg), !.ends = @ + 1, !.orig = Count(@, res)],
        prop |-> Propagated(res)]

\* request.end(chunk, encoding) on the handle
endCall(c, arg) ==
    LET res == [j \in 1..Len(c.layers) |-> IF c.layers[j].wrapped THEN endWrapper(c.layers[j], arg) ELSE Skip(c.layers[j])]
    IN [call |-> [c EXCEPT !.layers = [j \in 1..Len(c.layers) |-> IF Ran(res, j) THEN res[j].layer ELSE c.layers[j]],
                           !.passed = Append(@, arg), !.ends = @ + 1, !.orig = Count(@, res)],
        prop |-> Propagated(res)]

\* ------------------------------------------------- events of the request handle
\* the timing cases of the request's emit wrapper (wrapRequest), one layer
requestEmitWrapper(L, ev) ==
    [layer |-> CASE ev = "finish" -> [L EXCEPT !.timing["request.finish"] = now]
                 [] ev \in {"abort", "close"} -> [L EXCEPT !.timing["request.close"] = now]
                 [] ev = "timeout" -> [L EXCEPT !.timing["request.timeout"] = now]
                 [] OTHER -> L,
     prop |-> "none"]

\* request.emit(ev) for an event that carries no object to wrap
requestEmit(c, ev) ==
    LET res == [j \in 1..Len(c.layers) |-> IF c.layers[j].wrapped THEN requestEmitWrapper(c.layers[j], ev) ELSE Skip(c.layers[j])]
    IN [call |-> [c EXCEPT !.layers = [j \in 1..Len(c.layers) |-> IF Ran(res, j) THEN res[j].layer ELSE c.layers[j]],
                           !.emitted = @ \cup {ev}, !.orig = Count(@, res)],
        prop |-> Propagated(res)]

\* the headers of the snapshot res that case 'response' builds from the
\* response it is handed
resHeaders(head) == normaliseHeaders(head.headers)

\* The closure state of one emit wrapper on a response: notPeek, chunks and
\* the snapshot res; layer is the request layer whose req and context it shares.
NewResponseWrap(j, np) ==
    [layer |-> j, notPeek |-> np, chunks |-> <<>>, res |-> [body |-> Unread, frozen |-> np]]

\* a wrapResponse that switches the response to flowing mode and so sees it
\* read to its end
wrapResponseResumes(L, j, r) ==
    LET np == notPeekResponse(L.owner)
        e == emit(L.owner, "response.received")
        R == [L EXCEPT !.timing["response.read"] = now, !.timing["response.end"] = now]
        L1 == Publish([R EXCEPT !.req.frozen = TRUE], "response.received", e, r, Unread)
    IN IF ~np
       THEN [layer |-> R, prop |-> "none", wrap |-> <<NewResponseWrap(j, FALSE)>>]
       ELSE IF e.thrown # "none"
       THEN [layer |-> L1, prop |-> handleWrapperError(e.thrown), wrap |-> <<>>]
       ELSE [layer |-> L1, prop |-> "none", wrap |-> <<NewResponseWrap(j, TRUE)>>]

\* case 'response' of the request's emit wrapper, one layer (j on the handle,
\* r the response): the snapshot shell and wrapResponse.  With capture declined
\* response.received is published before response.emit is wrapped, so an
\* observer's exception leaves wrapResponse with the response unwrapped.
wrapResponse(L, j, r) ==
    LET np == notPeekResponse(L.owner)
        e == emit(L.owner, "response.received")
        L1 == Publish([L EXCEPT !.req.frozen = TRUE], "response.received", e, r, Unread)
    IN IF ~np
       THEN [layer |-> L, prop |-> "none", wrap |-> <<NewResponseWrap(j, FALSE)>>]
       ELSE IF e.thrown # "none"
       THEN [layer |-> L1, prop |-> handleWrapperError(e.thrown), wrap |-> <<>>]
       ELSE [layer |-> L1, prop |-> "none", wrap |-> <<NewResponseWrap(j, TRUE)>>]

\* request.emit('response', response): each layer wraps the response's emit,
\* so the outermost request layer ends up innermost on the response
responseArrives(c, from, head) ==
    LET k == Len(c.layers)
        r == Len(c.resps) + 1
        res == [j \in 1..k |-> IF c.layers[j].wrapped THEN wrapResponse(c.layers[j], j, r) ELSE [layer |-> c.layers[j], prop |-> "none", wrap |-> <<>>]]
        ws == Flatten([n \in 1..k |-> IF Ran(res, k + 1 - n) THEN res[k + 1 - n].wrap ELSE <<>>])
    IN [call |-> [c EXCEPT !.layers = [j \in 1..k |-> IF Ran(res, j) THEN res[j].layer ELSE c.layers[j]],
                           !.resps = Append(@, [synthetic |-> from # 0, from |-> from, head |-> head, wraps |-> ws, data |-> <<>>, emitted |-> {}]),
                           !.orig = Count(@, res)],
        prop |-> Propagated(res)]

\* ------------------------------------------------------ events of a response
\* a push that puts the newest chunk first
pushDataFirst(chunks, data) ==
    <<IF data.type = "string" THEN BufferFrom(data.data, data.enc) ELSE data.data>> \o chunks

\* case 'data': chunks.push(typeof data === 'string' ? Buffer.from(data,
\* response.readableEncoding || 'utf-8') : data)
pushData(chunks, data) ==
    Append(chunks, IF data.type = "string" THEN BufferFrom(data.data, data.enc) ELSE data.data)

\* an emit wrapper that reports an abort as a response error
responseEmitWrapperAbortReported(L, W, r, ev, data) ==
    LET read == IF L.timing["response.read"] = 0 THEN [L EXCEPT !.timing["response.read"] = now] ELSE L
        ended == [read EXCEPT !.timing["response.end"] = now]
        assignThrows == ~W.notPeek /\ W.res.frozen
        body == IF W.notPeek THEN W.res.body ELSE Captured(BufferConcat(W.chunks))
        eRecv == emit(L.owner, "response.received")
        eErr == emit(L.owner, "response.error")
    IN CASE ev = "data" ->
              [layer |-> read,
               wrap |-> IF ~W.notPeek
                        THEN [W EXCEPT !.chunks = pushData(@, data)]
                        ELSE W,
               prop |-> "none"]
         [] ev = "end" /\ W.notPeek ->
              [layer |-> ended, wrap |-> W, prop |-> "none"]
         [] ev = "end" /\ ~W.notPeek /\ assignThrows ->
              [layer |-> ended, wrap |-> W, prop |-> handleWrapperError("error")]
         [] ev = "end" /\ ~W.notPeek /\ ~assignThrows ->
              [layer |-> Publish([ended EXCEPT !.req.frozen = TRUE], "response.received", eRecv, r, body),
               wrap |-> [W EXCEPT !.res = [body |-> body, frozen |-> TRUE]],
               prop |-> handleWrapperError(eRecv.thrown)]
         [] ev = "error" ->
              [layer |-> Publish([L EXCEPT !.timing["response.error"] = now], "response.error", eErr, r, Unread),
               wrap |-> W,
               prop |-> handleWrapperError(eErr.thrown)]
         [] ev = "aborted" ->
              [layer |-> Publish([L EXCEPT !.timing["response.aborted"] = now], "response.error", eErr, r, Unread),
               wrap |-> W,
               prop |-> handleWrapperError(eErr.thrown)]
         [] OTHER ->
              [layer |-> L, wrap |-> W, prop |-> "none"]

\* the response's emit wrapper of one layer (wrapResponse): L is the request
\* layer it shares, W its own closure, r the response
responseEmitWrapper(L, W, r, ev, data) ==
    LET read == IF L.timing["response.read"] = 0 THEN [L EXCEPT !.timing["response.read"] = now] ELSE L
        ended == [read EXCEPT !.timing["response.end"] = now]
        assignThrows == ~W.notPeek /\ W.res.frozen
        body == IF W.notPeek THEN W.res.body ELSE Captured(BufferConcat(W.chunks))
        eRecv == emit(L.owner, "response.received")
        eErr == emit(L.owner, "response.error")
    IN CASE ev = "data" ->
              [layer |-> read,
               wrap |-> IF ~W.notPeek
                        THEN [W EXCEPT !.chunks = pushData(@, data)]
                        ELSE W,
               prop |-> "none"]
         [] ev = "end" /\ W.notPeek ->
              [layer |-> ended, wrap |-> W, prop |-> "none"]
         [] ev = "end" /\ ~W.notPeek /\ assignThrows ->
              [layer |-> ended, wrap |-> W, prop |-> handleWrapperError("error")]
         [] ev = "end" /\ ~W.notPeek /\ ~assignThrows ->
              [layer |-> Publish([ended EXCEPT !.req.frozen = TRUE], "response.received", eRecv, r, body),
               wrap |-> [W EXCEPT !.res = [body |-> body, frozen |-> TRUE]],
               prop |-> handleWrapperError(eRecv.thrown)]
         [] ev = "error" ->
              [layer |-> Publish([L EXCEPT !.timing["response.error"] = now], "response.error", eErr, r, Unread),
               wrap |-> W,
               prop |-> handleWrapperError(eErr.thrown)]
         [] ev = "aborted" ->
              [layer |-> [L EXCEPT !.timing["response.aborted"] = now], wrap |-> W, prop |-> "none"]
         [] OTHER ->
              [layer |-> L, wrap |-> W, prop |-> "none"]

\* response.emit(ev, data) on response r of the handle
responseEmit(c, r, ev, data) ==
    LET R == c.resps[r]
        res == [n \in 1..Len(R.wraps) |-> responseEmitWrapper(c.layers[R.wraps[n].layer], R.wraps[n], r, ev, data)]
        hit(j) == {n \in 1..Len(R.wraps) : Ran(res, n) /\ R.wraps[n].layer = j}
    IN [call |-> [c EXCEPT !.layers = [j \in 1..Len(c.layers) |-> IF hit(j) # {} THEN res[CHOOSE n \in hit(j) : TRUE].layer ELSE c.layers[j]],
                           !.resps[r] = [R EXCEPT !.wraps = [n \in 1..Len(R.wraps) |-> IF Ran(res, n) THEN res[n].wrap ELSE R.wraps[n]],
                                                  !.data = IF ev = "data" THEN Append(@, data) ELSE @,
                                                  !.emitted = IF ev = "data" THEN @ ELSE @ \cup {ev}],
                           !.orig = Count(@, res)],
        prop |-> Propagated(res)]

\* ------------------------------------------------ events of a connection handle
\* a socket wrapper whose 'error' case publishes without a checkpoint
socketEmitWrapperNoCheckpoint(L, ev) ==
    LET e == emit(L.owner, "socket.error")
    IN CASE ev = "lookup" -> [layer |-> [L EXCEPT !.timing["socket.lookup"] = now], prop |-> "none"]
         [] ev = "connect" -> [layer |-> [L EXCEPT !.timing["socket.connect"] = now], prop |-> "none"]
         [] ev = "secureConnect" -> [layer |-> [L EXCEPT !.timing["socket.tls"] = now], prop |-> "none"]
         [] ev = "ready" -> [layer |-> [L EXCEPT !.timing["socket.ready"] = now], prop |-> "none"]
         [] ev = "error" -> [layer |-> Publish(L, "socket.error", e, 0, Unread), prop |-> e.thrown]
         [] ev = "close" -> [layer |-> [L EXCEPT !.timing["socket.close"] = now], prop |-> "none"]
         [] OTHER -> [layer |-> L, prop |-> "none"]

\* the socket's emit wrapper of one layer (wrapSocket): no try block, so what
\* an observer throws leaves the wrapper as it is
socketEmitWrapper(L, ev) ==
    LET e == emit(L.owner, "socket.error")
    IN CASE ev = "lookup" -> [layer |-> [L EXCEPT !.timing["socket.lookup"] = now], prop |-> "none"]
         [] ev = "connect" -> [layer |-> [L EXCEPT !.timing["socket.connect"] = now], prop |-> "none"]
         [] ev = "secureConnect" -> [layer |-> [L EXCEPT !.timing["socket.tls"] = now], prop |-> "none"]
         [] ev = "ready" -> [layer |-> [L EXCEPT !.timing["socket.ready"] = now], prop |-> "none"]
         [] ev = "error" -> [layer |-> Publish([L EXCEPT !.timing["socket.error"] = now], "socket.error", e, 0, Unread), prop |-> e.thrown]
         [] ev = "close" -> [layer |-> [L EXCEPT !.timing["socket.close"] = now], prop |-> "none"]
         [] OTHER -> [layer |-> L, prop |-> "none"]

\* case 'socket' of the request's emit wrapper: every layer of call c wraps
\* the socket's emit
wrapSocket(S, c, layers) ==
    [S EXCEPT !.wraps = [n \in 1..Len(layers) |-> [call |-> c, layer |-> Len(layers) + 1 - n]] \o @]

\* socket.emit(ev) on socket S: the closures it reaches belong to the calls
\* that were given this socket
socketEmit(S, ev) ==
    LET res == [n \in 1..Len(S.wraps) |-> socketEmitWrapper(calls[S.wraps[n].call].layers[S.wraps[n].layer], ev)]
        hit(c, j) == {n \in 1..Len(S.wraps) : Ran(res, n) /\ S.wraps[n].call = c /\ S.wraps[n].layer = j}
    IN [calls |-> [c \in 1..Len(calls) |->
                     [calls[c] EXCEPT !.layers = [j \in 1..Len(calls[c].layers) |->
                         IF hit(c, j) # {} THEN res[CHOOSE n \in hit(c, j) : TRUE].layer ELSE calls[c].layers[j]]]],
        socket |-> [S EXCEPT !.emitted = @ \cup {ev}, !.orig = Count(@, res)],
        prop |-> Propagated(res)]

\* ------------------------------------------------------------------ actions
Init ==
    /\ options \in [Interceptors -> [peekRequestBody : Policies, peekResponseBody : Policies]]
    /\ enabled = [i \in Interceptors |-> FALSE]
    /\ listeners = [i \in Interceptors |-> <<>>]
    /\ stubFn = [i \in Interceptors |-> NoStub]
    /\ entry = [t \in Transports |-> [request |-> <<>>, get |-> <<>>]]
    /\ calls = <<>>
    /\ sockets = <<>>
    /\ clock = 1
    /\ uuids = 0
    /\ hist = [regs |-> 0, enables |-> 0, again |-> {}, floor |-> [i \in Interceptors |-> 0]]

\* the wall clock advances
Tick ==
    /\ clock < MaxClock
    /\ clock' = clock + 1
    /\ UNCHANGED <<options, enabled, listeners, stubFn, entry, calls, sockets, uuids, hist>>

\* interceptor.enable()  (hist.again: which of enable() and disable() met an
\* interceptor already in the state asked for)
Enable(i) ==
    /\ enabled[i] \/ hist.enables < MaxEnables
    /\ enable(i)
    /\ hist' = [hist EXCEPT !.enables = IF enabled[i] THEN @ ELSE @ + 1, !.again = IF enabled[i] THEN @ \cup {"enable"} ELSE @]
    /\ UNCHANGED <<options, stubFn, calls, sockets, clock, uuids>>

\* interceptor.disable()  (hist.floor: the registrations made before it)
Disable(i) ==
    /\ disable(i)
    /\ hist' = [hist EXCEPT !.floor[i] = IF enabled[i] THEN hist.regs ELSE @, !.again = IF enabled[i] THEN @ ELSE @ \cup {"disable"}]
    /\ UNCHANGED <<options, stubFn, calls, sockets, clock, uuids>>

\* interceptor.on(kind, listener), the listener behaving as beh
On(i, kind, beh) ==
    /\ hist.regs < MaxObservers
    /\ on(i, kind, beh)
    /\ hist' = [hist EXCEPT !.regs = @ + 1]
    /\ UNCHANGED <<options, enabled, stubFn, entry, calls, sockets, clock, uuids>>

\* interceptor.stub(fn)
StubOp(i, s) ==
    /\ stub(i, s)
    /\ UNCHANGED <<options, enabled, listeners, entry, calls, sockets, clock, uuids, hist>>

\* interceptor.unstub()
Unstub(i) ==
    /\ unstub(i)
    /\ UNCHANGED <<options, enabled, listeners, entry, calls, sockets, clock, uuids, hist>>

\* a request creation that emits the stub's response before it returns
RequestDeliversAtOnce(t, args) ==
    /\ Len(calls) < MaxCalls
    /\ \E r \in {newCall(t, args)} :
        /\ calls' = Append(calls, IF r.call.layers # <<>> /\ r.call.layers[1].stub = "pending"
                                  THEN responseArrives([r.call EXCEPT !.layers[1].stub = "delivered"], 1, fabricate(r.call.layers[1].stubResponse)).call
                                  ELSE r.call)
        /\ uuids' = uuids + r.ids
    /\ UNCHANGED <<options, enabled, listeners, stubFn, entry, sockets, clock, hist>>

\* the application calls http.request(...args) / https.request(...args)
Request(t, args) ==
    /\ Len(calls) < MaxCalls
    /\ \E r \in {newCall(t, args)} :
        /\ calls' = Append(calls, r.call)
        /\ uuids' = uuids + r.ids
    /\ UNCHANGED <<options, enabled, listeners, stubFn, entry, sockets, clock, hist>>

\* the application calls http.get(...args) / https.get(...args): the get wrapper calls
\* transport.request and then request.end(); the transport's own get does not
\* go through transport.request
getWrapper(t, r) ==
    IF entry[t].get = <<>>
    THEN [call |-> [r.call EXCEPT !.layers = <<>>, !.returned = TRUE], ids |-> 0]
    ELSE IF r.prop = "none"
    THEN [call |-> endCall(r.call, NoArg).call, ids |-> r.ids]
    ELSE [call |-> r.call, ids |-> r.ids]

getCall(t, args) == getWrapper(t, newCall(t, args))

Get(t, args) ==
    /\ Len(calls) < MaxCalls
    /\ \E g \in {getCall(t, args)} :
        /\ calls' = Append(calls, g.call)
        /\ uuids' = uuids + g.ids
    /\ UNCHANGED <<options, enabled, listeners, stubFn, entry, sockets, clock, hist>>

\* A handle that carries no wrapper is the transport's own business: nothing
\* of the interceptor runs on it.
Observed(c) == calls[c].layers # <<>>

\* a write whose chunk lands in the accumulator of every handle
WriteSharedChunks(c, arg) ==
    /\ Observed(c) /\ calls[c].returned
    /\ calls[c].writes < MaxWrites
    /\ calls[c].ends = 0
    /\ calls' = [d \in 1..Len(calls) |->
                    IF d = c THEN writeCall(calls[c], arg).call
                    ELSE [calls[d] EXCEPT !.layers = [j \in 1..Len(calls[d].layers) |->
                                [calls[d].layers[j] EXCEPT !.chunks = pushChunk(@, arg)]]]]
    /\ UNCHANGED <<options, enabled, listeners, stubFn, entry, sockets, clock, uuids, hist>>

\* the application calls request.write(chunk, encoding); never after end()
Write(c, arg) ==
    /\ Observed(c) /\ calls[c].returned
    /\ calls[c].writes < MaxWrites
    /\ calls[c].ends = 0
    /\ calls' = [calls EXCEPT ![c] = writeCall(calls[c], arg).call]
    /\ UNCHANGED <<options, enabled, listeners, stubFn, entry, sockets, clock, uuids, hist>>

\* the application calls request.write(chunk, encoding) on a handle it has
\* ended: the write wrapper runs all the same
WriteAfterEnd(c, arg) ==
    /\ Observed(c) /\ calls[c].returned
    /\ calls[c].writes < MaxWrites
    /\ calls[c].ends > 0
    /\ calls' = [calls EXCEPT ![c] = writeCall(calls[c], arg).call]
    /\ UNCHANGED <<options, enabled, listeners, stubFn, entry, sockets, clock, uuids, hist>>

\* the application calls request.end(chunk, encoding)
End(c, arg) ==
    /\ Observed(c) /\ calls[c].returned
    /\ calls[c].ends < MaxEnds
    /\ calls' = [calls EXCEPT ![c] = endCall(calls[c], arg).call]
    /\ UNCHANGED <<options, enabled, listeners, stubFn, entry, sockets, clock, uuids, hist>>

\* the transport emits 'finish', 'abort', 'close', 'timeout' or 'error' on the
\* handle, each at most once
RequestEmit(c, ev) ==
    /\ Observed(c)
    /\ ev \notin calls[c].emitted
    /\ ev = "finish" => calls[c].ends > 0
    /\ calls' = [calls EXCEPT ![c] = requestEmit(calls[c], ev).call]
    /\ UNCHANGED <<options, enabled, listeners, stubFn, entry, sockets, clock, uuids, hist>>

\* the transport gives the handle a new connection and emits 'socket'
RequestSocket(c) ==
    /\ Observed(c)
    /\ calls[c].socket = 0
    /\ Len(sockets) < MaxSockets
    /\ calls' = [calls EXCEPT ![c] = [requestEmit(calls[c], "socket").call EXCEPT !.socket = Len(sockets) + 1]]
    /\ sockets' = Append(sockets, wrapSocket([wraps |-> <<>>, emitted |-> {}, orig |-> NoOps], c, SelectSeq(calls[c].layers, LAMBDA L : L.wrapped)))
    /\ UNCHANGED <<options, enabled, listeners, stubFn, entry, clock, uuids, hist>>

\* the users of connection s whose response has not ended
Busy(s) ==
    {d \in 1..Len(calls) : calls[d].socket = s /\ \A r \in 1..Len(calls[d].resps) : "end" \notin calls[d].resps[r].emitted}

\* the transport's keep-alive agent hands the handle a connection that an
\* earlier call has finished with, and emits 'socket': case 'socket' wraps the
\* connection's emit once more, over the wrappers of the earlier calls
RequestSocketReused(c, s) ==
    /\ Observed(c)
    /\ calls[c].socket = 0
    /\ sockets[s].emitted \cap {"error", "close"} = {}
    /\ Busy(s) = {}
    /\ calls' = [calls EXCEPT ![c] = [requestEmit(calls[c], "socket").call EXCEPT !.socket = s]]
    /\ sockets' = [sockets EXCEPT ![s] = wrapSocket(@, c, SelectSeq(calls[c].layers, LAMBDA L : L.wrapped))]
    /\ UNCHANGED <<options, enabled, listeners, stubFn, entry, clock, uuids, hist>>

\* the transport delivers the real response, once the request has begun and
\* while the connection is sound: it emits 'response' on the handle
RealResponse(c) ==
    /\ Observed(c)
    /\ calls[c].socket # 0
    /\ calls[c].writes + calls[c].ends > 0
    /\ "response" \notin calls[c].emitted
    /\ "error" \notin sockets[calls[c].socket].emitted
    /\ calls' = [calls EXCEPT ![c] = [responseArrives(calls[c], 0, RealHead).call EXCEPT !.emitted = @ \cup {"response"}]]
    /\ UNCHANGED <<options, enabled, listeners, stubFn, entry, sockets, clock, uuids, hist>>

\* a scheduled callback that delivers only while a stub is installed
StubDeliverIfInstalled(c, j) ==
    /\ calls[c].layers[j].stub = "pending"
    /\ calls' = [calls EXCEPT ![c] =
            IF stubFn[calls[c].layers[j].owner].ret = "none"
            THEN [calls[c] EXCEPT !.layers[j].stub = "none"]
            ELSE IF calls[c].layers[j].stubResponse.headers.given
            THEN responseArrives([calls[c] EXCEPT !.layers[j].stub = "delivered"], j, fabricate(calls[c].layers[j].stubResponse)).call
            ELSE [calls[c] EXCEPT !.layers[j].stub = "threw"]]
    /\ UNCHANGED <<options, enabled, listeners, stubFn, entry, sockets, clock, uuids, hist>>

\* the process.nextTick callback of layer j runs: the fabricated
\* IncomingMessage is emitted as 'response' on the handle.  For a stub
\* response without headers normaliseHeaders(undefined) throws in the
\* callback, which has no try block, before anything is emitted.
StubDeliver(c, j) ==
    /\ calls[c].layers[j].stub = "pending"
    /\ calls' = [calls EXCEPT ![c] =
            IF calls[c].layers[j].stubResponse.headers.given
            THEN responseArrives([calls[c] EXCEPT !.layers[j].stub = "delivered"], j, fabricate(calls[c].layers[j].stubResponse)).call
            ELSE [calls[c] EXCEPT !.layers[j].stub = "threw"]]
    /\ UNCHANGED <<options, enabled, listeners, stubFn, entry, sockets, clock, uuids, hist>>

\* the response stream emits 'data' (the consumer reads), 'end', 'error' or
\* 'aborted'; nothing follows 'end' or 'error'
ResponseEmit(c, r, ev, data) ==
    /\ calls[c].resps[r].emitted \cap {"end", "error"} = {}
    /\ ev \notin calls[c].resps[r].emitted
    /\ ev = "data" => Len(calls[c].resps[r].data) < MaxData
    /\ calls' = [calls EXCEPT ![c] = responseEmit(calls[c], r, ev, data).call]
    /\ UNCHANGED <<options, enabled, listeners, stubFn, entry, sockets, clock, uuids, hist>>

\* the connection emits 'lookup', 'connect', 'secureConnect', 'ready', 'error'
\* or 'close', each at most once
SocketEmit(s, ev) ==
    /\ ev \notin sockets[s].emitted
    /\ calls' = socketEmit(sockets[s], ev).calls
    /\ sockets' = [sockets EXCEPT ![s] = socketEmit(sockets[s], ev).socket]
    /\ UNCHANGED <<options, enabled, listeners, stubFn, entry, clock, uuids, hist>>

\* ----------------------------------------------------------- specifications
\* Spec: installation and correlation.  One interceptor is enabled and
\* disabled at any time, observers that do not fail subscribe, and calls are
\* made, ended, given a connection and answered; responses and the connection
\* may fail.
Next ==
    \/ \E i \in Interceptors : Enable(i)
    \/ \E i \in Interceptors : Disable(i)
    \/ \E i \in Interceptors : \E kind \in {"request.sent", "response.received"} : On(i, kind, "ok")
    \/ \E t \in Transports : Request(t, DefaultArgs)
    \/ \E t \in Transports : Get(t, DefaultArgs)
    \/ \E c \in 1..Len(calls) : calls[c].ends = 0 /\ End(c, NoArg)
    \/ \E c \in 1..Len(calls) : RequestSocket(c)
    \/ \E c \in 1..Len(calls) : RealResponse(c)
    \/ \E c \in 1..Len(calls) : \E r \in 1..Len(calls[c].resps) : \E ev \in {"end", "error"} : ResponseEmit(c, r, ev, NoArg)
    \/ \E s \in 1..Len(sockets) : SocketEmit(s, "error")

Spec == Init /\ [][Next]_vars

\* SpecFaults, SpecErrors: failing observers.  Observers of every kind, which
\* return or throw, subscribe before the one call is made; the call is
\* written, ended, given a connection and answered, and its connection and
\* its response may fail.  In SpecErrors what is thrown is an Error object, in
\* SpecFaults it may also be null or undefined.
NextFaults(behs) ==
    \/ \E i \in Interceptors : calls = <<>> /\ Enable(i)
    \/ \E i \in Interceptors : \E kind \in Events : \E beh \in behs : calls = <<>> /\ On(i, kind, beh)
    \/ \E t \in Transports : calls = <<>> /\ Request(t, DefaultArgs)
    \/ \E c \in 1..Len(calls) : Write(c, BufferArg)
    \/ \E c \in 1..Len(calls) : calls[c].ends = 0 /\ End(c, NoArg)
    \/ \E c \in 1..Len(calls) : RequestSocket(c)
    \/ \E c \in 1..Len(calls) : RealResponse(c)
    \/ \E c \in 1..Len(calls) : \E r \in 1..Len(calls[c].resps) : \E ev \in {"data", "end", "error"} : ResponseEmit(c, r, ev, BufferArg)
    \/ \E s \in 1..Len(sockets) : SocketEmit(s, "error")

SpecFaults == Init /\ [][NextFaults(Behaviours)]_vars

SpecErrors == Init /\ [][NextFaults({"ok", "throw"})]_vars

\* SpecFlow: the course of one call.  No observer is subscribed; the
\* interceptor is enabled, with or without a stub, and the call is written,
\* ended, given a connection and answered by the transport and by the stub in
\* every order, its responses and its connection failing or not.
NextFlow ==
    \/ \E i \in Interceptors : calls = <<>> /\ Enable(i)
    \/ \E i \in Interceptors : calls = <<>> /\ StubOp(i, ReadmeStub)
    \/ \E t \in Transports : calls = <<>> /\ Request(t, DefaultArgs)
    \/ \E t \in Transports : calls = <<>> /\ Get(t, DefaultArgs)
    \/ \E c \in 1..Len(calls) : Write(c, BufferArg)
    \/ \E c \in 1..Len(calls) : End(c, NoArg)
    \/ \E c \in 1..Len(calls) : RequestSocket(c)
    \/ \E c \in 1..Len(calls) : RealResponse(c)
    \/ \E c \in 1..Len(calls) : \E j \in 1..Len(calls[c].layers) : StubDeliver(c, j)
    \/ \E c \in 1..Len(calls) : \E r \in 1..Len(calls[c].resps) : \E ev \in {"data", "end", "error"} : ResponseEmit(c, r, ev, BufferArg)
    \/ \E s \in 1..Len(sockets) : SocketEmit(s, "error")

SpecFlow == Init /\ [][NextFlow]_vars

\* SpecBody: request and response bodies.  One call is written and ended with
\* chunks of every shape (a repeated end passes no chunk), and answered; the
\* response is read as Buffers or as strings and ends.
NextBody ==
    \/ \E i \in Interceptors : calls = <<>> /\ Enable(i)
    \/ \E t \in Transports : calls = <<>> /\ Request(t, DefaultArgs)
    \/ \E c \in 1..Len(calls) : \E arg \in ChunkArgs : Write(c, arg)
    \/ \E c \in 1..Len(calls) : \E arg \in ChunkArgs : (calls[c].ends = 0 \/ arg = NoArg) /\ End(c, arg)
    \/ \E c \in 1..Len(calls) : RequestSocket(c)
    \/ \E c \in 1..Len(calls) : RealResponse(c)
    \/ \E c \in 1..Len(calls) : \E r \in 1..Len(calls[c].resps) : \E data \in DataArgs : ResponseEmit(c, r, "data", data)
    \/ \E c \in 1..Len(calls) : \E r \in 1..Len(calls[c].resps) : ResponseEmit(c, r, "end", NoArg)

SpecBody == Init /\ [][NextBody]_vars

\* SpecTiming: the checkpoints of one call.  The clock advances between the
\* steps; the call is written (also after its end), ended once or twice,
\* given a connection and answered, and the response is read and ends.
NextTiming ==
    \/ Tick
    \/ \E i \in Interceptors : calls = <<>> /\ Enable(i)
    \/ \E t \in Transports : calls = <<>> /\ Request(t, DefaultArgs)
    \/ \E t \in Transports : calls = <<>> /\ Get(t, DefaultArgs)
    \/ \E c \in 1..Len(calls) : Write(c, BufferArg)
    \/ \E c \in 1..Len(calls) : WriteAfterEnd(c, BufferArg)
    \/ \E c \in 1..Len(calls) : End(c, NoArg)
    \/ \E c \in 1..Len(calls) : RequestSocket(c)
    \/ \E c \in 1..Len(calls) : RealResponse(c)
    \/ \E c \in 1..Len(calls) : \E r \in 1..Len(calls[c].resps) : \E ev \in {"data", "end"} : ResponseEmit(c, r, ev, BufferArg)

SpecTiming == Init /\ [][NextTiming]_vars

\* SpecStub: stubbed calls.  A stub that returns a response of any shape, or
\* nothing, is installed or removed before the one call is made; the call is
\* ended, the scheduled response delivered, read and ended.
NextStub ==
    \/ \E i \in Interceptors : calls = <<>> /\ Enable(i)
    \/ \E i \in Interceptors : \E s \in StubFns : calls = <<>> /\ stubFn[i] = NoStub /\ StubOp(i, s)
    \/ \E i \in Interceptors : calls = <<>> /\ stubFn[i] # NoStub /\ Unstub(i)
    \/ \E t \in Transports : calls = <<>> /\ Request(t, DefaultArgs)
    \/ \E c \in 1..Len(calls) : calls[c].ends = 0 /\ End(c, NoArg)
    \/ \E c \in 1..Len(calls) : \E j \in 1..Len(calls[c].layers) : StubDeliver(c, j)
    \/ \E c \in 1..Len(calls) : \E r \in 1..Len(calls[c].resps) : \E ev \in {"data", "end"} : ResponseEmit(c, r, ev, BufferArg)

SpecStub == Init /\ [][NextStub]_vars

\* SpecHandle: observers that write to what they are handed.  Observers of
\* request.initiated that set a header on the handle, and observers of the
\* snapshot that overwrite one of its headers, subscribe before the one call
\* is made; the call is written, ended, given a connection and answered.
HandleArgs == {DefaultArgs, [DefaultArgs EXCEPT !.options.headers = "accept" :> Str("*/*")]}

NextHandle ==
    \/ \E i \in Interceptors : calls = <<>> /\ Enable(i)
    \/ \E i \in Interceptors : \E beh \in {"ok", "setHeader", "setEmptyHeader"} : calls = <<>> /\ On(i, "request.initiated", beh)
    \/ \E i \in Interceptors : \E kind \in {"request.sent", "response.received"} : \E beh \in {"ok", "redact"} : calls = <<>> /\ On(i, kind, beh)
    \/ \E t \in Transports : \E args \in HandleArgs : calls = <<>> /\ Request(t, args)
    \/ \E t \in Transports : \E args \in HandleArgs : calls = <<>> /\ Get(t, args)
    \/ \E c \in 1..Len(calls) : Write(c, BufferArg)
    \/ \E c \in 1..Len(calls) : calls[c].ends = 0 /\ End(c, NoArg)
    \/ \E c \in 1..Len(calls) : RequestSocket(c)
    \/ \E c \in 1..Len(calls) : RealResponse(c)
    \/ \E c \in 1..Len(calls) : \E r \in 1..Len(calls[c].resps) : ResponseEmit(c, r, "end", NoArg)

SpecHandle == Init /\ [][NextHandle]_vars

\* SpecResponse: the end of a response.  Observers of response.error, which
\* return or throw, subscribe before the one call is made; the call is
\* written, ended, given a connection and answered, and the response is read,
\* ends, is aborted or fails.
NextResponse ==
    \/ \E i \in Interceptors : calls = <<>> /\ Enable(i)
    \/ \E i \in Interceptors : \E beh \in {"ok", "throw"} : calls = <<>> /\ On(i, "response.error", beh)
    \/ \E t \in Transports : calls = <<>> /\ Request(t, DefaultArgs)
    \/ \E c \in 1..Len(calls) : Write(c, BufferArg)
    \/ \E c \in 1..Len(calls) : calls[c].ends = 0 /\ End(c, NoArg)
    \/ \E c \in 1..Len(calls) : RequestSocket(c)
    \/ \E c \in 1..Len(calls) : RealResponse(c)
    \/ \E c \in 1..Len(calls) : \E r \in 1..Len(calls[c].resps) : \E ev \in {"data", "end", "error", "aborted"} : ResponseEmit(c, r, ev, BufferArg)

SpecResponse == Init /\ [][NextResponse]_vars

\* SpecArgs: the arguments of a call.  One call is made through request(...)
\* or get(...) with arguments of every shape, with or without a stub function
\* that throws, and ended.
NextArgs ==
    \/ \E i \in Interceptors : calls = <<>> /\ Enable(i)
    \/ \E i \in Interceptors : calls = <<>> /\ stubFn[i] = NoStub /\ StubOp(i, ThrowingStub)
    \/ \E t \in Transports : \E args \in RequestArgs : calls = <<>> /\ Request(t, args)
    \/ \E t \in Transports : \E args \in RequestArgs : calls = <<>> /\ Get(t, args)
    \/ \E c \in 1..Len(calls) : calls[c].ends = 0 /\ End(c, NoArg)

SpecArgs == Init /\ [][NextArgs]_vars

\* SpecInFlight: disabling while a call is in flight.  The interceptor is
\* enabled, one call is made, and the interceptor is disabled at any moment
\* of the call, after which the clock advances; the call is written, ended,
\* given a connection and answered, and the handle, the connection and the
\* response emit their events.
NextInFlight ==
    \/ (calls # <<>> /\ \A i \in Interceptors : ~enabled[i]) /\ Tick
    \/ \E i \in Interceptors : calls = <<>> /\ Enable(i)
    \/ \E i \in Interceptors : calls # <<>> /\ Disable(i)
    \/ \E t \in Transports : calls = <<>> /\ Request(t, DefaultArgs)
    \/ \E c \in 1..Len(calls) : Write(c, BufferArg)
    \/ \E c \in 1..Len(calls) : calls[c].ends = 0 /\ End(c, NoArg)
    \/ \E c \in 1..Len(calls) : RequestEmit(c, "finish")
    \/ \E c \in 1..Len(calls) : RequestSocket(c)
    \/ \E s \in 1..Len(sockets) : SocketEmit(s, "connect")
    \/ \E c \in 1..Len(calls) : RealResponse(c)
    \/ \E c \in 1..Len(calls) : \E r \in 1..Len(calls[c].resps) : \E ev \in {"data", "end"} : ResponseEmit(c, r, ev, BufferArg)

SpecInFlight == Init /\ [][NextInFlight]_vars

\* SpecConcurrent: calls in flight together.  The interceptor is enabled, with
\* or without a stub, and two calls are made; each is written, ended and
\* answered, and its response read and ended, in every interleaving with the
\* other.
ConcurrentChunks == {BufferArg, [type |-> "string", data |-> <<233>>, enc |-> "latin1"]}

NextConcurrent ==
    \/ \E i \in Interceptors : calls = <<>> /\ Enable(i)
    \/ \E i \in Interceptors : calls = <<>> /\ StubOp(i, ReadmeStub)
    \/ \E t \in Transports : Request(t, DefaultArgs)
    \/ \E c \in 1..Len(calls) : \E arg \in ConcurrentChunks : Write(c, arg)
    \/ \E c \in 1..Len(calls) : calls[c].ends = 0 /\ End(c, NoArg)
    \/ \E c \in 1..Len(calls) : \E j \in 1..Len(calls[c].layers) : StubDeliver(c, j)
    \/ \E c \in 1..Len(calls) : \E r \in 1..Len(calls[c].resps) : \E data \in DataArgs : ResponseEmit(c, r, "data", data)
    \/ \E c \in 1..Len(calls) : \E r \in 1..Len(calls[c].resps) : ResponseEmit(c, r, "end", NoArg)

SpecConcurrent == Init /\ [][NextConcurrent]_vars

\* SpecStubTiming: when the stub is consulted.  The interceptor is enabled; a
\* stub is installed at any time and removed while a scheduled response is
\* waiting to be delivered; calls are made through request(...) and get(...),
\* ended, and their scheduled responses delivered and ended.
Pending == \E c \in 1..Len(calls) : \E j \in 1..Len(calls[c].layers) : calls[c].layers[j].stub = "pending"

NextStubTiming ==
    \/ \E i \in Interceptors : calls = <<>> /\ Enable(i)
    \/ \E i \in Interceptors : \E s \in {ReadmeStub, [ret |-> "nothing", response |-> NoStubResponse]} : stubFn[i] = NoStub /\ StubOp(i, s)
    \/ \E i \in Interceptors : (Pending /\ stubFn[i] # NoStub) /\ Unstub(i)
    \/ \E t \in Transports : Request(t, DefaultArgs)
    \/ \E t \in Transports : Get(t, DefaultArgs)
    \/ \E c \in 1..Len(calls) : calls[c].ends = 0 /\ End(c, NoArg)
    \/ \E c \in 1..Len(calls) : \E j \in 1..Len(calls[c].layers) : StubDeliver(c, j)
    \/ \E c \in 1..Len(calls) : \E r \in 1..Len(calls[c].resps) : ResponseEmit(c, r, "end", NoArg)

SpecStubTiming == Init /\ [][NextStubTiming]_vars

\* SpecTwo: two interceptor instances in one process.  Each is enabled and
\* disabled at any time, observers of request.initiated subscribe to either,
\* and calls are made through request(...) and get(...) and ended.
Instances == {"a", "b"}

InitTwo ==
    /\ options \in [Instances -> [peekRequestBody : Policies, peekResponseBody : {"accept"}]]
    /\ enabled = [i \in Instances |-> FALSE]
    /\ listeners = [i \in Instances |-> <<>>]
    /\ stubFn = [i \in Instances |-> NoStub]
    /\ entry = [t \in Transports |-> [request |-> <<>>, get |-> <<>>]]
    /\ calls = <<>>
    /\ sockets = <<>>
    /\ clock = 1
    /\ uuids = 0
    /\ hist = [regs |-> 0, enables |-> 0, again |-> {}, floor |-> [i \in Instances |-> 0]]

NextTwo ==
    \/ \E i \in Instances : ~enabled[i] /\ Enable(i)
    \/ \E i \in Instances : enabled[i] /\ Disable(i)
    \/ \E i \in Instances : On(i, "request.initiated", "ok")
    \/ \E t \in Transports : Request(t, DefaultArgs)
    \/ \E t \in Transports : Get(t, DefaultArgs)
    \/ \E c \in 1..Len(calls) : calls[c].ends = 0 /\ End(c, NoArg)

SpecTwo == InitTwo /\ [][NextTwo]_vars

\* SpecReuse: a kept-alive connection.  Two calls are made and ended; the
\* first is given a new connection and each later one the connection an
\* earlier call has finished with; the calls are answered and the connection
\* connects, fails and closes.
NextReuse ==
    \/ \E i \in Interceptors : calls = <<>> /\ Enable(i)
    \/ \E t \in Transports : Request(t, DefaultArgs)
    \/ \E c \in 1..Len(calls) : calls[c].ends = 0 /\ End(c, NoArg)
    \/ \E c \in 1..Len(calls) : RequestSocket(c)
    \/ \E c \in 1..Len(calls) : \E s \in 1..Len(sockets) : RequestSocketReused(c, s)
    \/ \E c \in 1..Len(calls) : RealResponse(c)
    \/ \E c \in 1..Len(calls) : \E r \in 1..Len(calls[c].resps) : ResponseEmit(c, r, "end", NoArg)
    \/ \E s \in 1..Len(sockets) : \E ev \in {"connect", "error", "close"} : SocketEmit(s, ev)

SpecReuse == Init /\ [][NextReuse]_vars

\* ------------------------------------------------------------------ claims
Calls == 1..Len(calls)

LayersOf(c) == 1..Len(calls[c].layers)

Log(c, j) == calls[c].layers[j].log

\* the places of the events of the given kinds in a log
Places(log, kinds) == {n \in 1..Len(log) : log[n].kind \in kinds}

ResponseKinds == {"response.received", "response.error"}

\* C1: every call to a wrapped operation of a request handle (write, end,
\* emit) or of one of its responses (emit) invokes the original operation
\* exactly once and returns its result: no call is left without its original
\* and none lets an exception out, whatever the instrumentation or an
\* observer throws.
C1_OriginalAlwaysInvoked ==
    \A c \in Calls :
        /\ calls[c].orig.invoked = calls[c].orig.calls
        /\ calls[c].orig.threw = 0

\* C2: when an event is published, every observer subscribed to its kind is
\* invoked, also the ones subscribed after an observer that throws.
C2_AllObserversRun ==
    \A c \in Calls : \A j \in LayersOf(c) : \A n \in 1..Len(Log(c, j)) :
        Len(Log(c, j)[n].obs) = Log(c, j)[n].subs

\* C3: what an observer throws never leaves the wrapped transport operation
\* in which the event was published: request creation returns the handle, no
\* wrapped operation of a handle, a response or a connection lets an exception
\* out, and the connection's own emit is always invoked.
C3_ObserverFailuresContained ==
    /\ \A c \in Calls : calls[c].returned /\ calls[c].orig.threw = 0
    /\ \A s \in 1..Len(sockets) :
        /\ sockets[s].orig.threw = 0
        /\ sockets[s].orig.invoked = sockets[s].orig.calls

\* C4: in every context request.initiated is published before request.sent,
\* and request.sent before any response.received or response.error.
C4_LifecycleOrder ==
    \A c \in Calls : \A j \in LayersOf(c) :
        /\ \A n \in Places(Log(c, j), {"request.sent"}) :
            \E m \in Places(Log(c, j), {"request.initiated"}) : m < n
        /\ \A n \in Places(Log(c, j), ResponseKinds) :
            \E m \in Places(Log(c, j), {"request.sent"}) : m < n

\* C5: no context receives both a response.received and an error event for
\* the same response: a response.error about the same response object, or a
\* socket.error when the response came over the connection.
C5_ReceivedExcludesError ==
    \A c \in Calls : \A j \in LayersOf(c) :
        \A n \in Places(Log(c, j), {"response.received"}) :
            /\ \A m \in Places(Log(c, j), {"response.error"}) : Log(c, j)[m].on # Log(c, j)[n].on
            /\ ~calls[c].resps[Log(c, j)[n].on].synthetic => Places(Log(c, j), {"socket.error"}) = {}

\* C6: whenever the interceptor is disabled, request and get of both
\* transports are the original functions: no wrapper layer is left on them.
C6_DisabledLeavesNoWrapper ==
    (\A i \in Interceptors : ~enabled[i]) =>
        \A t \in Transports : entry[t].request = <<>> /\ entry[t].get = <<>>

\* C7: enable() on an enabled interceptor and disable() on one that is not
\* enabled change nothing.  While the interceptor is enabled the request entry
\* point of each transport carries exactly one of its layers, however often
\* enable() was called, so every call allocates at most one context, which
\* publishes request.initiated once, request.sent at most once and
\* response.received at most once.
C7_OneLayerOneContext ==
    /\ \A i \in Interceptors : \A t \in Transports :
        /\ Len(SelectSeq(entry[t].request, LAMBDA o : o = i)) = IF enabled[i] THEN 1 ELSE 0
        /\ enabled[i] => Len(entry[t].get) >= 1
    /\ \A c \in Calls :
        /\ Len(calls[c].layers) <= 1
        /\ \A j \in LayersOf(c) :
            /\ Cardinality(Places(Log(c, j), {"request.initiated"})) = 1
            /\ Cardinality(Places(Log(c, j), {"request.sent"})) <= 1
            /\ Cardinality(Places(Log(c, j), {"response.received"})) <= 1

C7_RedundantSwitch ==
    \E i \in Interceptors : (enabled[i] /\ Enable(i)) \/ (~enabled[i] /\ Disable(i))

C7_Idempotent ==
    /\ []C7_OneLayerOneContext
    /\ [][C7_RedundantSwitch => UNCHANGED <<options, enabled, listeners, stubFn, entry, calls, sockets, uuids>>]_vars

\* enable() met an enabled interceptor and disable() one that was not enabled,
\* and a call made through the single layer published request.initiated and
\* request.sent
C7_Witness ==
    /\ hist.again = {"enable", "disable"}
    /\ \E i \in Interceptors : enabled[i] /\ hist.enables = 1
    /\ \E c \in Calls : \E j \in LayersOf(c) :
        /\ Places(Log(c, j), {"request.initiated"}) # {}
        /\ Places(Log(c, j), {"request.sent"}) # {}

\* C8: disable() on an enabled interceptor removes every observer: no observer
\* subscribed before a disable() is invoked for an event published after it,
\* on handles made before the disable() or after a later enable().
C8_DisableRemovesObservers ==
    \A c \in Calls : \A j \in LayersOf(c) : \A n \in 1..Len(Log(c, j)) :
        \A m \in 1..Len(Log(c, j)[n].obs) : Log(c, j)[n].obs[m] > Log(c, j)[n].floor

\* an observer subscribed before a disable() and one subscribed after it, the
\* interceptor enabled again, and an event that reached the second one only
C8_Witness ==
    \E c \in Calls : \E j \in LayersOf(c) : \E n \in 1..Len(Log(c, j)) :
        /\ Log(c, j)[n].floor = 1
        /\ Log(c, j)[n].obs = <<2>>
        /\ hist.enables = 2

\* C9: every event of one call carries the context of that call, with the
\* same requestId from request.initiated to the terminal event, and the events
\* of two calls never carry the same requestId.  (uuid() is taken to return a
\* new identifier each time.)
C9_Correlation ==
    /\ \A c \in Calls : \A j \in LayersOf(c) : \A n, m \in 1..Len(Log(c, j)) :
        Log(c, j)[n].rid = Log(c, j)[m].rid
    /\ \A c, d \in Calls : \A j \in LayersOf(c) : \A k \in LayersOf(d) :
        \A n \in 1..Len(Log(c, j)) : \A m \in 1..Len(Log(d, k)) :
            c # d => Log(c, j)[n].rid # Log(d, k)[m].rid

\* two calls with request.initiated and request.sent, one of them with a
\* terminal event as well
C9_Witness ==
    /\ Len(calls) = 2
    /\ \A c \in Calls : \E j \in LayersOf(c) :
        /\ Places(Log(c, j), {"request.initiated"}) # {}
        /\ Places(Log(c, j), {"request.sent"}) # {}
    /\ \E c \in Calls : \E j \in LayersOf(c) :
        Places(Log(c, j), {"response.received", "response.error", "socket.error"}) # {}

\* the bytes each chunk argument stands for on the wire
Wire(arg) ==
    CASE arg = [type |-> "buffer", data |-> <<7>>, enc |-> "none"] -> <<7>>
      [] arg = [type |-> "string", data |-> <<233>>, enc |-> "none"] -> <<195, 169>>
      [] arg = [type |-> "string", data |-> <<233>>, enc |-> "latin1"] -> <<233>>
      [] OTHER -> <<>>

\* the chunks passed to the write calls and to the first end call, in order
Sent(c) == Flatten([n \in 1..(calls[c].writes + 1) |-> Wire(calls[c].passed[n])])

\* C10: with request body capture enabled, the body published with
\* request.sent is the concatenation, in call order, of the chunks passed to
\* write and then to end, a string chunk converted with the encoding of its
\* call and as UTF-8 without one.
C10_RequestBody ==
    \A c \in Calls : \A j \in LayersOf(c) :
        ~calls[c].layers[j].notPeek =>
            \A n \in Places(Log(c, j), {"request.sent"}) : Log(c, j)[n].body = Captured(Sent(c))

\* a Buffer written and a latin1 string passed to end, captured as two chunks
C10_Witness ==
    \E c \in Calls : \E j \in LayersOf(c) : \E n \in Places(Log(c, j), {"request.sent"}) :
        /\ ~calls[c].layers[j].notPeek
        /\ calls[c].writes = 1
        /\ calls[c].passed[2] = [type |-> "string", data |-> <<233>>, enc |-> "latin1"]
        /\ Log(c, j)[n].body = Captured(<<7, 233>>)

\* two checkpoints in order, as far as they are set
InOrder(a, b) == a = 0 \/ b = 0 \/ a <= b

\* C11: in every state of a context the checkpoints that are set are in
\* order within their phase: request.initiated <= request.write <=
\* request.end and response.read <= response.end, in every order of write,
\* end, data and end-of-response.  (Successive readings of now() are taken
\* not to decrease.)
C11_CheckpointsOrdered ==
    \A c \in Calls : \A j \in LayersOf(c) :
        LET T == calls[c].layers[j].timing
        IN /\ T["request.initiated"] # 0
           /\ InOrder(T["request.initiated"], T["request.write"])
           /\ InOrder(T["request.write"], T["request.end"])
           /\ InOrder(T["request.initiated"], T["request.end"])
           /\ InOrder(T["response.read"], T["response.end"])

\* a call created, written and ended at three different times, whose response
\* was read before it ended
C11_Witness ==
    \E c \in Calls : \E j \in LayersOf(c) :
        LET T == calls[c].layers[j].timing
        IN /\ T["request.initiated"] < T["request.write"]
           /\ T["request.write"] < T["request.end"]
           /\ T["response.read"] # 0
           /\ T["response.read"] < T["response.end"]

\* C12: once a request was ended without a write before it, request.write
\* equals request.end and both are set; once a response ended without a data
\* chunk, response.read equals response.end and both are set.
C12_BackFill ==
    \A c \in Calls : \A j \in LayersOf(c) :
        LET T == calls[c].layers[j].timing
        IN /\ (calls[c].layers[j].wrapped /\ calls[c].writes = 0 /\ calls[c].ends > 0) =>
                (T["request.end"] # 0 /\ T["request.write"] = T["request.end"])
           /\ \A r \in 1..Len(calls[c].resps) :
                ("end" \in calls[c].resps[r].emitted /\ calls[c].resps[r].data = <<>>
                    /\ \E n \in 1..Len(calls[c].resps[r].wraps) : calls[c].resps[r].wraps[n].layer = j) =>
                (T["response.end"] # 0 /\ T["response.read"] = T["response.end"])

\* the request-wrapper layer j of call c, and the interceptor it belongs to
Layer(c, j) == calls[c].layers[j]

Declines(c, j, policy) == options[Layer(c, j).owner][policy] = "decline"

\* the emit wrappers that layer j of call c put on response r
WrapsOf(c, j, r) ==
    {n \in 1..Len(calls[c].resps[r].wraps) : calls[c].resps[r].wraps[n].layer = j}

\* the response.received events of layer j of call c about response r
Received(c, j, r) ==
    {n \in Places(Log(c, j), {"response.received"}) : Log(c, j)[n].on = r}

\* C13: the body published with request.sent tells an empty body from an
\* uncaptured one.  With capture enabled and no byte passed to write or end it
\* is a zero-length payload; with capture declined it is the not-captured
\* marker whatever was written, and no chunk is accumulated.
C13_EmptyOrUncaptured ==
    \A c \in Calls : \A j \in LayersOf(c) :
        /\ Declines(c, j, "peekRequestBody") => Layer(c, j).chunks = <<>>
        /\ \A n \in Places(Log(c, j), {"request.sent"}) :
            /\ Declines(c, j, "peekRequestBody") => Log(c, j)[n].body = Unread
            /\ (~Declines(c, j, "peekRequestBody") /\ Sent(c) = <<>>) => Log(c, j)[n].body = Captured(<<>>)

\* capture declined, a Buffer written, and request.sent published with the
\* marker
C13_Witness ==
    \E c \in Calls : \E j \in LayersOf(c) : \E n \in Places(Log(c, j), {"request.sent"}) :
        /\ Declines(c, j, "peekRequestBody")
        /\ calls[c].writes = 1
        /\ calls[c].passed[1] = BufferArg
        /\ Log(c, j)[n].body = Unread

\* C14: when the policy declines a response, response.received is published
\* exactly once for it, as soon as the response is there and so before any
\* data chunk, with the not-captured marker as body; data chunks are not
\* accumulated and the end of the response publishes nothing more.
C14_DeclinedResponse ==
    \A c \in Calls : \A j \in LayersOf(c) : \A r \in 1..Len(calls[c].resps) :
        (Layer(c, j).wrapped /\ Declines(c, j, "peekResponseBody")) =>
            /\ Cardinality(Received(c, j, r)) = 1
            /\ \A n \in Received(c, j, r) : Log(c, j)[n].body = Unread
            /\ \A n \in WrapsOf(c, j, r) : calls[c].resps[r].wraps[n].chunks = <<>>

\* a declined response that was read and has ended
C14_Witness ==
    \E c \in Calls : \E j \in LayersOf(c) : \E r \in 1..Len(calls[c].resps) :
        /\ Declines(c, j, "peekResponseBody")
        /\ Len(calls[c].resps[r].data) = MaxData
        /\ "end" \in calls[c].resps[r].emitted
        /\ Cardinality(Received(c, j, r)) = 1

\* the data chunks of response r of call c, in arrival order
Read(c, r) == Flatten([n \in 1..Len(calls[c].resps[r].data) |-> Wire(calls[c].resps[r].data[n])])

\* C15: when the policy accepts a response, response.received is published
\* at the end of the response and not before, once, and its body is the
\* concatenation of the data chunks of that response in arrival order.
C15_AcceptedResponse ==
    \A c \in Calls : \A j \in LayersOf(c) : \A r \in 1..Len(calls[c].resps) :
        (Layer(c, j).wrapped /\ ~Declines(c, j, "peekResponseBody")) =>
            /\ Cardinality(Received(c, j, r)) = IF "end" \in calls[c].resps[r].emitted THEN 1 ELSE 0
            /\ \A n \in Received(c, j, r) : Log(c, j)[n].body = Captured(Read(c, r))

\* an accepted response read as a Buffer and then as a latin1 string
C15_Witness ==
    \E c \in Calls : \E j \in LayersOf(c) : \E r \in 1..Len(calls[c].resps) : \E n \in Received(c, j, r) :
        /\ ~Declines(c, j, "peekResponseBody")
        /\ calls[c].resps[r].data = <<BufferArg, [type |-> "string", data |-> <<233>>, enc |-> "latin1"]>>
        /\ Log(c, j)[n].body = Captured(<<7, 233>>)

SocketFields == {"socket.lookup", "socket.connect", "socket.tls", "socket.ready", "socket.error", "socket.close"}

\* C16: when the stub returned a response for a call, no socket checkpoint of
\* the call's context is ever set.
C16_StubbedNoSocketTiming ==
    \A c \in Calls : \A j \in LayersOf(c) :
        Layer(c, j).stub # "none" => \A f \in SocketFields : Layer(c, j).timing[f] = 0

\* C17: when the stub returned a response for a call, the context gets at
\* most one response.received, and a response the transport delivers on the
\* same handle publishes no further response-phase event.
C17_StubReplacesRoundTrip ==
    \A c \in Calls : \A j \in LayersOf(c) :
        Layer(c, j).stub # "none" =>
            /\ Cardinality(Places(Log(c, j), {"response.received"})) <= 1
            /\ \A n \in Places(Log(c, j), ResponseKinds) : calls[c].resps[Log(c, j)[n].on].synthetic

\* the handle of a call as its creation returns it: no response was emitted
\* on it and no response-phase event published
C18_FreshHandle(call) ==
    /\ call.resps = <<>>
    /\ \A j \in 1..Len(call.layers) : Places(call.layers[j].log, ResponseKinds) = {}

C18_DeliveredLater ==
    \A c \in Calls : \A j \in LayersOf(c) :
        /\ Layer(c, j).stub = "pending" => \A r \in 1..Len(calls[c].resps) : ~calls[c].resps[r].synthetic
        /\ Layer(c, j).stub = "delivered" => calls[c].returned

\* C18: a synthetic response is never delivered synchronously.  Every
\* request creation returns a handle on which no response was emitted yet,
\* and the stub's response is emitted by a later step, on a handle the caller
\* has.
C18_StubNeverSynchronous ==
    /\ []C18_DeliveredLater
    /\ [][Len(calls') = Len(calls) + 1 => C18_FreshHandle(calls'[Len(calls')])]_vars

\* a stubbed call whose synthetic response was delivered and published
C18_Witness ==
    \E c \in Calls : \E j \in LayersOf(c) : \E n \in Places(Log(c, j), {"response.received"}) :
        /\ Layer(c, j).stub = "delivered"
        /\ calls[c].resps[Log(c, j)[n].on].synthetic

\* the responses of call c that were fabricated from a stub
Synthetic(c) == {r \in 1..Len(calls[c].resps) : calls[c].resps[r].synthetic}

\* C19: every response fabricated from a stub carries the marker header that
\* tells it is synthetic, x-stub: true, whatever headers the stub returned.
C19_MarkerHeader ==
    \A c \in Calls : \A r \in Synthetic(c) :
        /\ "x-stub" \in DOMAIN calls[c].resps[r].head.headers
        /\ calls[c].resps[r].head.headers["x-stub"] = Str("true")

\* the stub's headers as they are to appear on the fabricated response
StubHeadersExpected(fields) ==
    CASE fields = ("server" :> Str("")) -> EmptyHeaders
      [] fields = ("set-cookie" :> List(<<"a", "a">>)) -> ("set-cookie" :> Str("a"))
      [] fields = ("set-cookie" :> List(<<"a", "b", "a">>)) -> ("set-cookie" :> List(<<"a", "b">>))
      [] OTHER -> fields

\* C20: the fabricated response has the stub's status code and status text,
\* 200 and OK where the stub omits them, and its headers are the diagnostic
\* block with the stub's normalised headers laid over it: a name the stub
\* gives carries the stub's value, every other name of the block its fixed
\* value.
C20_FabricatedResponse ==
    \A c \in Calls : \A r \in Synthetic(c) :
        LET sr == Layer(c, calls[c].resps[r].from).stubResponse
            head == calls[c].resps[r].head
            N == StubHeadersExpected(sr.headers.fields)
        IN /\ head.statusCode = IF sr.statusCode = 0 THEN 200 ELSE sr.statusCode
           /\ head.statusMessage = IF sr.statusMessage = "" THEN "OK" ELSE sr.statusMessage
           /\ DOMAIN head.headers = DOMAIN N \cup {"server", "x-stub", "content-type", "date"}
           /\ \A h \in DOMAIN N : head.headers[h] = N[h]
           /\ "server" \notin DOMAIN N => head.headers["server"] = Str("http-interceptor/stub")
           /\ "x-stub" \notin DOMAIN N => head.headers["x-stub"] = Str("true")
           /\ "content-type" \notin DOMAIN N => head.headers["content-type"] = Str("application/octet-stream")

\* a stub without status and with the README's headers: 200, OK, the stub's
\* content type and the rest of the diagnostic block
C20_Witness ==
    \E c \in Calls : \E r \in Synthetic(c) :
        /\ Layer(c, calls[c].resps[r].from).stubResponse =
              [statusCode |-> 0, statusMessage |-> "", headers |-> [given |-> TRUE, fields |-> ReadmeHeaders]]
        /\ calls[c].resps[r].head.statusCode = 200
        /\ calls[c].resps[r].head.statusMessage = "OK"
        /\ calls[c].resps[r].head.headers["content-type"] = Str("text/plain")
        /\ calls[c].resps[r].head.headers["x-stub"] = Str("true")

\* the connection of call c failed and no response had arrived on the handle
ConnectionFailed(c) ==
    /\ calls[c].socket # 0
    /\ "error" \in sockets[calls[c].socket].emitted
    /\ calls[c].resps = <<>>

\* C21: for a call whose connection fails before any response arrives,
\* exactly one socket.error is published for the call's context, carrying
\* the request snapshot, the error and the context; the socket.error
\* checkpoint is recorded, and no response.received is published for that
\* context.
C21_ConnectionFailure ==
    \A c \in Calls : \A j \in LayersOf(c) :
        (Layer(c, j).wrapped /\ ConnectionFailed(c)) =>
            /\ Cardinality(Places(Log(c, j), {"socket.error"})) = 1
            /\ \A n \in Places(Log(c, j), {"socket.error"}) :
                /\ Log(c, j)[n].rid = Layer(c, j).rid
                /\ Log(c, j)[n].args = <<"req", "error", "context">>
            /\ Layer(c, j).timing["socket.error"] > 0
            /\ Places(Log(c, j), {"response.received"}) = {}

\* a written and ended call whose connection failed, with an observer of
\* socket.error that throws
C21_Witness ==
    \E c \in Calls : \E j \in LayersOf(c) :
        /\ Layer(c, j).wrapped /\ ConnectionFailed(c)
        /\ calls[c].ends > 0
        /\ \E n \in Places(Log(c, j), {"socket.error"}) : Log(c, j)[n].threw # "none"

\* the header a request.initiated observer sets on the handle, under the name
\* getHeaders() returns it
HeaderSetBy(beh) ==
    CASE beh = "setHeader" -> "x-trace" [] beh = "setEmptyHeader" -> "x-flag"

SnapshotKinds == {"request.sent", "response.received"}

\* C22: request.initiated is published exactly once per request-creation
\* call, inside that call and so before any write or end, with the mutable
\* request handle; a header that one of its observers sets on the handle is
\* in the request snapshot published with request.sent and with
\* response.received.
C22_InitiatedOnceHeadersSeen ==
    \A c \in Calls : \A j \in LayersOf(c) :
        /\ Places(Log(c, j), {"request.initiated"}) = {1}
        /\ Log(c, j)[1].args = <<"request", "context">>
        /\ \A m \in 1..Len(Log(c, j)[1].did) : \A n \in Places(Log(c, j), SnapshotKinds) :
            Log(c, j)[1].did[m] \in {"setHeader", "setEmptyHeader"} =>
                HeaderSetBy(Log(c, j)[1].did[m]) \in DOMAIN Log(c, j)[n].req.headers

\* call c is a body-less GET: nothing was written and it was ended once,
\* without a chunk, by the get wrapper or by the application
BodylessGet(c) ==
    /\ calls[c].passed = <<NoArg>>
    /\ \A j \in LayersOf(c) : Layer(c, j).wrapped /\ Layer(c, j).req.method = "GET" /\ Layer(c, j).stub = "none"

\* a response of call c that completed
Completed(c) == {r \in 1..Len(calls[c].resps) : "end" \in calls[c].resps[r].emitted}

\* C23: a body-less GET issued while enabled, with capture accepted and no
\* stub, whose response completes, yields exactly one request.initiated,
\* exactly one request.sent, whose body is a zero-length capture and not the
\* marker, and exactly one response.received; and then response.end >=
\* response.read >= request.end >= request.write >= request.initiated.
C23_BodylessGet ==
    \A c \in Calls : \A j \in LayersOf(c) :
        (/\ BodylessGet(c)
         /\ ~Declines(c, j, "peekRequestBody") /\ ~Declines(c, j, "peekResponseBody")
         /\ Completed(c) # {}) =>
            /\ Cardinality(Places(Log(c, j), {"request.initiated"})) = 1
            /\ Cardinality(Places(Log(c, j), {"request.sent"})) = 1
            /\ \A n \in Places(Log(c, j), {"request.sent"}) : Log(c, j)[n].req.body = Captured(<<>>)
            /\ Cardinality(Places(Log(c, j), {"response.received"})) = 1
            /\ Layer(c, j).timing["response.end"] >= Layer(c, j).timing["response.read"]
            /\ Layer(c, j).timing["response.read"] >= Layer(c, j).timing["request.end"]
            /\ Layer(c, j).timing["request.end"] >= Layer(c, j).timing["request.write"]
            /\ Layer(c, j).timing["request.write"] >= Layer(c, j).timing["request.initiated"]

\* a GET ended at the instant it was created, as get(...) does, whose
\* response was read later and completed later still
C23_Witness ==
    \E c \in Calls : \E j \in LayersOf(c) :
        /\ BodylessGet(c) /\ Completed(c) # {}
        /\ ~Declines(c, j, "peekRequestBody") /\ ~Declines(c, j, "peekResponseBody")
        /\ Layer(c, j).timing["request.end"] = Layer(c, j).timing["request.initiated"]
        /\ Layer(c, j).timing["response.end"] > Layer(c, j).timing["response.read"]
        /\ Layer(c, j).timing["response.read"] > Layer(c, j).timing["request.end"]

\* two request snapshots agree field by field
SameSnapshot(a, b) ==
    /\ a.url = b.url
    /\ a.method = b.method
    /\ a.headers = b.headers
    /\ a.body = b.body

\* C24: the request snapshot is immutable once published: after request.sent
\* nothing changes it, and the snapshot delivered with response.received is
\* equal, in URL, method, headers and body, to the one delivered with
\* request.sent.
C24_SnapshotImmutable ==
    \A c \in Calls : \A j \in LayersOf(c) : \A n \in Places(Log(c, j), {"request.sent"}) :
        /\ SameSnapshot(Layer(c, j).req, Log(c, j)[n].req)
        /\ \A m \in Places(Log(c, j), {"response.received"}) : SameSnapshot(Log(c, j)[m].req, Log(c, j)[n].req)

\* the options record of the arguments, if they hold one
HasOptions(args) == args.first = "options" \/ args.second = "options"

\* the method the arguments ask for: the options record's, GET without one
MethodAsked(args) ==
    IF HasOptions(args) /\ args.options.method # Undefined THEN args.options.method ELSE "GET"

\* C25: for every argument shape that request(...) accepts, the request
\* snapshot's method is the explicit method of the options record when one
\* is given and GET otherwise; it is never absent.
C25_MethodResolution ==
    \A c \in Calls : \A j \in LayersOf(c) :
        /\ Layer(c, j).wrapped
        /\ Layer(c, j).req.method = MethodAsked(calls[c].args)
        /\ Layer(c, j).req.method # Undefined

\* the default port of a scheme
DefaultPortOf(scheme) == IF scheme = "https:" THEN 443 ELSE 80

\* the calls made with an options record that names a host
Addressed(c) ==
    /\ calls[c].args.first = "options"
    /\ calls[c].args.options.host # Undefined \/ calls[c].args.options.hostname # Undefined

\* C26: the URL resolved from an options record is scheme://host[:port]path,
\* and the port is left out exactly when it is the default port of the
\* resolved scheme (80 for http, 443 for https) or the host string already
\* holds a port, also when the scheme comes from the protocol field and not
\* from the agent.
C26_UrlResolution ==
    \A c \in Calls : \A j \in LayersOf(c) :
        (Layer(c, j).wrapped /\ Addressed(c)) =>
            LET o == calls[c].args.options
                url == Layer(c, j).req.url
                host == IF o.host # Undefined THEN o.host ELSE o.hostname
                omitted == o.port = 0 \/ o.port = DefaultPortOf(url[1]) \/ IncludesColon(host)
            IN /\ url[1] \in {"http:", "https:"}
               /\ o.protocol # Undefined => url[1] = o.protocol
               /\ url = IF omitted THEN <<url[1], "//", host, o.path>>
                                   ELSE <<url[1], "//", host, ":", ToString(o.port), o.path>>

\* where a value first occurs in a list
FirstAt(xs, x) == CHOOSE n \in 1..Len(xs) : xs[n] = x /\ \A m \in 1..(n - 1) : xs[m] # x

\* ys holds the distinct values of xs, each once, in the order in which they
\* first occur in xs
DistinctInOrder(xs, ys) ==
    /\ {ys[n] : n \in 1..Len(ys)} = {xs[n] : n \in 1..Len(xs)}
    /\ \A a, b \in 1..Len(ys) : a < b => FirstAt(xs, ys[a]) < FirstAt(xs, ys[b])

\* one header of a snapshot against the value it was made from
Normalised(raw, out, h) ==
    CASE raw[h].type = "list" /\ Cardinality({raw[h].items[n] : n \in 1..Len(raw[h].items)}) = 1 ->
            h \in DOMAIN out /\ out[h] = Str(raw[h].items[1])
      [] raw[h].type = "list" /\ Cardinality({raw[h].items[n] : n \in 1..Len(raw[h].items)}) > 1 ->
            h \in DOMAIN out /\ out[h].type = "list" /\ DistinctInOrder(raw[h].items, out[h].items)
      [] raw[h].type = "string" ->
            h \in DOMAIN out /\ out[h] = raw[h]
      [] OTHER -> TRUE

\* C27: header normalisation: a list whose values are all identical becomes
\* that single string, a list with distinct values becomes the list of its
\* distinct values in first-occurrence order, a single value stays a string;
\* and normalising a normalised header object changes nothing.
C27_HeaderNormalisation ==
    \A c \in Calls : \A j \in LayersOf(c) :
        Layer(c, j).wrapped =>
            /\ \A h \in DOMAIN calls[c].headers : Normalised(getHeaders(calls[c].headers), Layer(c, j).req.headers, h)
            /\ normaliseHeaders(Layer(c, j).req.headers) = Layer(c, j).req.headers

\* no two names of a header object differ only in letter case
CaseNormalised(headers) ==
    \A a, b \in DOMAIN headers : Lower(a) = Lower(b) => a = b

\* C28: header names in a published snapshot are case-normalised: no two
\* keys of a request or response snapshot differ only in letter case, so a
\* stub header spelt in another letter case than a diagnostic header
\* replaces it and does not stand beside it.
C28_HeaderNamesCaseNormalised ==
    \A c \in Calls : \A j \in LayersOf(c) : \A n \in 1..Len(Log(c, j)) :
        /\ Log(c, j)[n].kind \in SnapshotKinds => CaseNormalised(Log(c, j)[n].req.headers)
        /\ Log(c, j)[n].kind = "response.received" => CaseNormalised(resHeaders(calls[c].resps[Log(c, j)[n].on].head))

\* the response.error events of layer j of call c about response r
Errors(c, j, r) ==
    {n \in Places(Log(c, j), {"response.error"}) : Log(c, j)[n].on = r}

\* what a failed or aborted response has left in the context of each layer
C29_Recorded ==
    \A c \in Calls : \A j \in LayersOf(c) : \A r \in 1..Len(calls[c].resps) :
        Layer(c, j).wrapped =>
            /\ "error" \in calls[c].resps[r].emitted =>
                /\ Layer(c, j).timing["response.error"] > 0
                /\ Cardinality(Errors(c, j, r)) = 1
                /\ \A n \in Errors(c, j, r) :
                    /\ Log(c, j)[n].args = <<"req", "error", "context">>
                    /\ Log(c, j)[n].rid = Layer(c, j).rid
                    /\ Log(c, j)[n].req.url = Layer(c, j).req.url
                    /\ Log(c, j)[n].req.method = Layer(c, j).req.method
                    /\ Log(c, j)[n].req.headers = Layer(c, j).req.headers
            /\ "error" \notin calls[c].resps[r].emitted => Errors(c, j, r) = {}
            /\ "aborted" \in calls[c].resps[r].emitted => Layer(c, j).timing["response.aborted"] > 0

\* a step in which a response is aborted leaves every log as it was
C29_AbortSilent ==
    \A c \in Calls : \A r \in 1..Len(calls[c].resps) :
        ("aborted" \notin calls[c].resps[r].emitted /\ "aborted" \in calls'[c].resps[r].emitted) =>
            \A j \in LayersOf(c) : calls'[c].layers[j].log = calls[c].layers[j].log

Untouched(c) ==
    {r \in 1..Len(calls[c].resps) :
        /\ ~calls[c].resps[r].synthetic
        /\ calls[c].resps[r].data = <<>>
        /\ "end" \notin calls[c].resps[r].emitted}

\* the application has read no response of call c
NoneRead(c) ==
    \A r \in 1..Len(calls[c].resps) : calls[c].resps[r].data = <<>> /\ "end" \notin calls[c].resps[r].emitted

\* with capture accepted no response.received for a response that was not
\* read, and no read or end checkpoint in a context none of whose responses
\* was read
C30_NothingRecorded ==
    \A c \in Calls : \A r \in Untouched(c) : \A j \in LayersOf(c) :
        /\ ~Declines(c, j, "peekResponseBody") => Received(c, j, r) = {}
        /\ NoneRead(c) =>
            /\ Layer(c, j).timing["response.read"] = 0
            /\ Layer(c, j).timing["response.end"] = 0

\* the step in which a response arrives on a handle emits nothing on it
C30_ArrivesUntouched ==
    \A c \in Calls :
        Len(calls'[c].resps) > Len(calls[c].resps) =>
            /\ calls'[c].resps[Len(calls'[c].resps)].data = <<>>
            /\ calls'[c].resps[Len(calls'[c].resps)].emitted = {}

\* C30: the engine never consumes a response stream on its own: it triggers
\* no data or end on a real response, so while the application has not read
\* a response no response.read or response.end checkpoint is recorded and,
\* with capture accepted, no response.received is published for it.
C30_NeverConsumes ==
    []C30_NothingRecorded /\ [][C30_ArrivesUntouched]_vars

\* a response that arrived, was never read and was aborted, with capture
\* accepted
C30_Witness ==
    \E c \in Calls : \E r \in Untouched(c) : \E j \in LayersOf(c) :
        /\ ~Declines(c, j, "peekResponseBody")
        /\ WrapsOf(c, j, r) # {}
        /\ "aborted" \in calls[c].resps[r].emitted

\* C31: while the interceptor is enabled, a call to request(...) with
\* arguments the transport accepts (a URL string or URL object with or without
\* an options record, an options record alone) returns the handle and lets no
\* exception of the instrumentation out, also when the stub function throws.
C31_CreationNeverThrows ==
    \A c \in Calls :
        Observed(c) => calls[c].returned

\* C32: on every call on which end() was invoked, each context of the call
\* has published request.sent, also when a response of the call (from the
\* transport or from the stub) arrived, and response.received was published,
\* before end() was invoked.
C32_SentOnEveryEnd ==
    \A c \in Calls : \A j \in LayersOf(c) :
        (Layer(c, j).wrapped /\ calls[c].ends > 0) =>
            \E n \in Places(Log(c, j), {"request.sent"}) : Log(c, j)[n].rid = Layer(c, j).rid

\* a checkpoint of a context that holds a value holds the same value after
\* the step
C33_Kept ==
    \A c \in Calls : \A j \in LayersOf(c) : \A f \in TimingFields :
        Layer(c, j).timing[f] # 0 => calls'[c].layers[j].timing[f] = Layer(c, j).timing[f]

\* C33: every timing checkpoint of a context is written at most once: once
\* a field holds a value no later transition (a second end(), an abort
\* followed by a close, a repeated socket event) overwrites it.
C33_WrittenOnce == [][C33_Kept]_vars

\* a context of a call whose interceptor is disabled by now
InFlightDisabled(c, j) == Layer(c, j).wrapped /\ ~enabled[Layer(c, j).owner]

\* the events an object has emitted in this step
NewlyEmitted(before, after) == after \ before

\* the checkpoint that a step of call c leaves in context j: written at this
\* moment, or, for the two fields that are written once, set
C34_Recorded(c, j) ==
    LET T == calls'[c].layers[j].timing
        s == calls[c].socket
    IN /\ calls'[c].writes > calls[c].writes => T["request.write"] # 0
       /\ calls'[c].ends > calls[c].ends => (T["request.write"] # 0 /\ T["request.end"] = clock)
       /\ "finish" \in NewlyEmitted(calls[c].emitted, calls'[c].emitted) => T["request.finish"] = clock
       /\ (calls[c].socket = 0 /\ calls'[c].socket # 0) =>
            \E n \in 1..Len(sockets'[calls'[c].socket].wraps) :
                sockets'[calls'[c].socket].wraps[n] = [call |-> c, layer |-> j]
       /\ (s # 0 /\ "connect" \in NewlyEmitted(sockets[s].emitted, sockets'[s].emitted)) => T["socket.connect"] = clock
       /\ Len(calls'[c].resps) > Len(calls[c].resps) =>
            \E n \in 1..Len(calls'[c].resps[Len(calls'[c].resps)].wraps) :
                calls'[c].resps[Len(calls'[c].resps)].wraps[n].layer = j
       /\ \A r \in 1..Len(calls[c].resps) :
            /\ Len(calls'[c].resps[r].data) > Len(calls[c].resps[r].data) => T["response.read"] # 0
            /\ "end" \in NewlyEmitted(calls[c].resps[r].emitted, calls'[c].resps[r].emitted) =>
                    (T["response.read"] # 0 /\ T["response.end"] = clock)

\* the original operations that a step of call c invoked: one for every
\* wrapped operation called
C34_Invoked(c) ==
    LET s == calls[c].socket
    IN /\ calls'[c].orig.invoked - calls[c].orig.invoked = calls'[c].orig.calls - calls[c].orig.calls
       /\ calls'[c].orig.threw = calls[c].orig.threw
       /\ s # 0 => sockets'[s].orig.invoked - sockets[s].orig.invoked = sockets'[s].orig.calls - sockets[s].orig.calls

C34_HooksRun ==
    \A c \in Calls : \A j \in LayersOf(c) :
        InFlightDisabled(c, j) => (C34_Recorded(c, j) /\ C34_Invoked(c))

\* C34: when disable() is called while a call is in flight, the call's wrapped
\* write, end and event hooks still run for the rest of its lifecycle: every
\* later step of the call records its timing checkpoint and invokes the
\* original operation, whatever the installation state.
C34_InFlightHooksRun == [][C34_HooksRun]_vars

\* a call that was created while the interceptor was enabled, and written,
\* ended and answered after the disable(): its checkpoints are later than its
\* creation and every original operation was invoked
C34_Witness ==
    \E c \in Calls : \E j \in LayersOf(c) :
        LET T == Layer(c, j).timing
        IN /\ InFlightDisabled(c, j)
           /\ \A t \in Transports : entry[t].request = <<>>
           /\ T["request.initiated"] < T["request.write"]
           /\ T["request.write"] < T["request.end"]
           /\ T["request.finish"] # 0
           /\ T["socket.connect"] # 0
           /\ T["response.end"] # 0
           /\ calls[c].orig.calls >= 5
           /\ calls[c].orig.invoked = calls[c].orig.calls

\* every context, timing store and accumulator of a call: the closures of its
\* layers and of the wrappers on its responses
Closures(call) ==
    [layers |-> [j \in 1..Len(call.layers) |-> [rid |-> call.layers[j].rid, timing |-> call.layers[j].timing,
                                                 req |-> call.layers[j].req, chunks |-> call.layers[j].chunks]],
     resps |-> [r \in 1..Len(call.resps) |-> call.resps[r].wraps]]

\* a step in which something of call c happens changes nothing of any other call
C35_OthersUntouched ==
    \A c \in Calls : \A d \in Calls :
        (c # d /\ calls'[c] # calls[c]) => Closures(calls'[d]) = Closures(calls[d])

\* what each call has gathered is what went through that call: its own
\* identifier, the chunks written to it, and the chunks read from its response
C35_OwnContents ==
    /\ \A c \in Calls : \A d \in Calls : \A j \in LayersOf(c) : \A k \in LayersOf(d) :
            c # d => Layer(c, j).rid # Layer(d, k).rid
    /\ \A c \in Calls : \A j \in LayersOf(c) :
            /\ (~Layer(c, j).notPeek /\ calls[c].ends = 0) =>
                    BufferConcat(Layer(c, j).chunks) = Flatten([n \in 1..calls[c].writes |-> Wire(calls[c].passed[n])])
            /\ ~Layer(c, j).notPeek =>
                    \A n \in Places(Log(c, j), {"request.sent"}) : Log(c, j)[n].body = Captured(Sent(c))
            /\ \A r \in 1..Len(calls[c].resps) : \A n \in WrapsOf(c, j, r) :
                    ~calls[c].resps[r].wraps[n].notPeek =>
                        BufferConcat(calls[c].resps[r].wraps[n].chunks) = Read(c, r)

\* C35: with calls in flight together, in every interleaving of their write,
\* end, data and end-of-response steps, each call has its own context, timing
\* store and body accumulators: a step of one call never changes the context,
\* timing or captured body of another call.
C35_CallsIsolated == []C35_OwnContents /\ [][C35_OthersUntouched]_vars

\* two calls in flight together: the first written and not yet ended, the
\* second written with another chunk, ended, answered and half read, each
\* accumulator holding the chunk of its own call
C35_Witness ==
    /\ Len(calls) = 2
    /\ calls[1].writes = 1 /\ calls[1].ends = 0
    /\ calls[2].writes = 1 /\ calls[2].ends = 1
    /\ \E j \in LayersOf(1) : Layer(1, j).chunks = <<<<7>>>>
    /\ \E j \in LayersOf(2) :
        /\ \E n \in Places(Log(2, j), {"request.sent"}) : Log(2, j)[n].body = Captured(<<233>>)
        /\ \E r \in 1..Len(calls[2].resps) : \E n \in WrapsOf(2, j, r) :
            /\ "end" \notin calls[2].resps[r].emitted
            /\ calls[2].resps[r].wraps[n].chunks # <<>>

\* C36: every context publishes request.sent at most once, however many
\* times end() is invoked on the handle, with request body capture accepted
\* or declined.
C36_SentAtMostOnce ==
    \A c \in Calls : \A j \in LayersOf(c) :
        Cardinality(Places(Log(c, j), {"request.sent"})) <= 1

\* the synthetic responses that layer j of call c delivered
DeliveredBy(c, j) == {r \in Synthetic(c) : calls[c].resps[r].from = j}

\* what the consultation at creation decided is what the call holds: a layer
\* that asked no stub, or was told nothing, has no synthetic response, and a
\* delivered response is the one the stub returned then
C37_DecisionHeld ==
    \A c \in Calls : \A j \in LayersOf(c) :
        /\ Layer(c, j).asked <= 1
        /\ Layer(c, j).wrapped => Layer(c, j).log # <<>>
        /\ Layer(c, j).stub # "none" => Layer(c, j).asked = 1
        /\ Cardinality(DeliveredBy(c, j)) = IF Layer(c, j).stub = "delivered" THEN 1 ELSE 0
        /\ \A r \in DeliveredBy(c, j) : calls[c].resps[r].head = fabricate(Layer(c, j).stubResponse)

\* after creation the stub is not consulted again and the decision stands:
\* no write, end, stub() or unstub() changes it, and a scheduled delivery is
\* not taken back
C37_DecisionFixed ==
    \A c \in Calls : \A j \in LayersOf(c) :
        /\ calls'[c].layers[j].asked = Layer(c, j).asked
        /\ calls'[c].layers[j].stubResponse = Layer(c, j).stubResponse
        /\ Layer(c, j).stub = "none" => calls'[c].layers[j].stub = "none"
        /\ Layer(c, j).stub = "pending" => calls'[c].layers[j].stub \in {"pending", "delivered", "threw"}
        /\ Layer(c, j).stub \in {"delivered", "threw"} => calls'[c].layers[j].stub = Layer(c, j).stub

\* a call is created with the stub asked as often as one is installed at that
\* moment, once or not at all
C37_AskedAtCreation ==
    \A i \in Interceptors :
        (Len(calls') > Len(calls) /\ enabled[i]) =>
            \A j \in 1..Len(calls'[Len(calls')].layers) :
                calls'[Len(calls')].layers[j].asked = IF stubFn[i].ret # "none" THEN 1 ELSE 0

\* C37: the stub function is consulted once per call, at request creation
\* and before any write or end, and its decision is fixed then: unstub()
\* between the creation and the scheduled delivery does not cancel the
\* delivery, and a stub installed after a call was created never affects
\* that call.
C37_StubConsultedAtCreation ==
    []C37_DecisionHeld /\ [][C37_DecisionFixed /\ C37_AskedAtCreation]_vars

\* a call created before the stub was installed, ended and left without a
\* synthetic response, and a later call created with the stub, whose response
\* was delivered although unstub() came while it was waiting
C37_Witness ==
    /\ Len(calls) = 2
    /\ \A i \in Interceptors : stubFn[i] = NoStub
    /\ \E j \in LayersOf(1) :
        /\ Layer(1, j).wrapped /\ Layer(1, j).asked = 0
        /\ calls[1].ends = 1 /\ calls[1].resps = <<>>
    /\ \E j \in LayersOf(2) :
        /\ Layer(2, j).asked = 1 /\ Layer(2, j).stub = "delivered"
        /\ DeliveredBy(2, j) # {}

\* the instances that allocated a context for a call
Owners(call) == {call.layers[j].owner : j \in 1..Len(call.layers)}

\* a call that is made gets a context from every enabled instance, which
\* publishes request.initiated to the observers of that instance, and from no
\* other instance
C38_ObservedByTheEnabled ==
    Len(calls') > Len(calls) =>
        LET new == calls'[Len(calls')]
        IN /\ Owners(new) = {i \in Instances : enabled[i]}
           /\ \A j \in 1..Len(new.layers) :
                \E n \in Places(new.layers[j].log, {"request.initiated"}) :
                    Len(new.layers[j].log[n].obs) = Len(ListenersOf(new.layers[j].owner, "request.initiated"))

\* C38: with two interceptor instances enabled together, disable() on one
\* removes only that instance's wrapping: the other keeps observing every
\* later call, and the disabled instance allocates no context for calls made
\* after its disable().
C38_DisableRemovesOwnWrapping == [][C38_ObservedByTheEnabled]_vars

\* call c has had its response and its connection is by now in the hands of
\* a later call
HandedOn(c) ==
    /\ calls[c].socket # 0
    /\ \E j \in LayersOf(c) : Places(Log(c, j), {"response.received"}) # {}
    /\ \E d \in Calls : d > c /\ calls[d].socket = calls[c].socket

C39_LeftAlone ==
    \A c \in Calls : \A j \in LayersOf(c) :
        HandedOn(c) =>
            /\ calls'[c].layers[j].timing = Layer(c, j).timing
            /\ Places(calls'[c].layers[j].log, {"socket.error"}) = Places(Log(c, j), {"socket.error"})

\* C39: when one connection is used by successive calls, an event of the
\* connection changes the socket timings of, and publishes socket.error for,
\* only the call that is using the connection: a call whose
\* response.received was published has neither its timing changed nor a
\* socket.error published by a later event on the reused connection.
C39_ReusedConnection == [][C39_LeftAlone]_vars

\* C40: a stub response that omits its headers is still delivered: once its
\* scheduled callback has run, the fabricated response is on the handle with
\* the diagnostic headers only, and the callback let no exception out.
C40_HeaderlessStubDelivered ==
    \A c \in Calls : \A j \in LayersOf(c) :
        (~Layer(c, j).stubResponse.headers.given /\ Layer(c, j).stub \notin {"none", "pending"}) =>
            /\ Layer(c, j).stub = "delivered"
            /\ \E r \in Synthetic(c) :
                /\ calls[c].resps[r].from = j
                /\ calls[c].resps[r].head.headers = DiagnosticHeaders

====
